---- MODULE Spec2Model ----
(***************************************************************************)
(* Model of monica-proxy's SSE translation engine                          *)
(* (internal/monica: processSSEStream, CollectMonicaSSEToCompletion,       *)
(* StreamMonicaSSEToClient) together with its environment: the backend     *)
(* that produces the byte stream, the bufio.Reader that splits it into     *)
(* lines, the bufio.Writer in front of the client sink and the inbound     *)
(* request whose cancellation fails the backend body reads.                *)
(*                                                                         *)
(* Bytes are modelled as tokens: the prefix "data: ", the newline, the     *)
(* sentinel "[DONE]", JSON objects, a malformed payload and a junk token.  *)
(* Strings (texts, frame contents) are sequences of tokens, so that        *)
(* concatenation is \o.                                                    *)
(***************************************************************************)
EXTENDS Integers, Sequences, FiniteSets, TLC

\* ------------------------------------------------------------------ bounds
\* number of lines the backend sends in one response
MaxLines == 3
\* number of tokens the backend may have in flight (sent, not yet read)
MaxNet == 4
\* number of requests in the rate-limit middleware at the same time
NumCallers == 2
\* the text events of a stream of text events, a finished event and [DONE]
MaxTexts == 3
\* the events of a sequence given to the Collector in two orders
MaxEvents == 3
\* the last minute of the clock
MaxTime == 20
\* the largest expected_time (seconds) the image backend declares
MaxExpected == 2
\* runes drawn for one random string
IdLen == 2
\* the states of the random source (it is advanced modulo RandMod)
RandMod == 3
\* events one request reads from its backend stream
EventsPerReq == 2
\* objects a pool's New may make
MaxObjs == 2

\* --------------------------------------------------------------- constants
dataPrefix == "data: "
sseFinish == "[DONE]"
NL == "\n"
thinkOpen == "<think>"
thinkClose == "</think>"

\* ------------------------------------------------------- the backend lines
\* a finished event that carries text and no agent status
FinishedWithText == "{finished:true,text:b}"

\* JSON payloads the backend can send (one token each)
JsonTokens ==
  { "{text:a}", "{text:b}", "{type:thinking}",
    "{type:thinking_detail_stream,reasoning_detail:r}",
    "{type:other,text:c}", "{finished:true}",
    "{finished:true,type:thinking,text:a}", FinishedWithText }

\* a payload that is not valid JSON
BadToken == "{not-json}"
\* a line without the data prefix (an SSE comment or an event: line)
JunkToken == ": keep-alive"

\* the newline-terminated lines of the backend of Spec (StreamLines has the
\* finished event with text)
Lines ==
  { <<dataPrefix, j, NL>> : j \in JsonTokens \ {FinishedWithText} }
    \cup { <<dataPrefix, sseFinish, NL>>,
           <<dataPrefix, BadToken, NL>>,
           <<dataPrefix, NL>>,
           <<JunkToken, NL>> }

\* what the backend may leave unterminated when it closes the body
Tails == { <<>>, <<dataPrefix, "{text:b}">> }

\* SSEData{} : the zero value of the event object
ZeroSSEData == [Text |-> <<>>, Finished |-> FALSE, Type |-> "", ReasoningDetail |-> <<>>]

\* the SSEData that sonic.Unmarshal leaves in a zeroed SSEData for each JSON
\* object: the fields present in the object are set, the others keep their
\* zero value
Decoded ==
  [j \in JsonTokens |->
     CASE j = "{text:a}" -> [ZeroSSEData EXCEPT !.Text = <<"a">>]
       [] j = "{text:b}" -> [ZeroSSEData EXCEPT !.Text = <<"b">>]
       [] j = "{type:thinking}" -> [ZeroSSEData EXCEPT !.Type = "thinking"]
       [] j = "{type:thinking_detail_stream,reasoning_detail:r}" ->
            [ZeroSSEData EXCEPT !.Type = "thinking_detail_stream",
                                !.ReasoningDetail = <<"r">>]
       [] j = "{type:other,text:c}" ->
            [ZeroSSEData EXCEPT !.Type = "other", !.Text = <<"c">>]
       [] j = "{finished:true}" -> [ZeroSSEData EXCEPT !.Finished = TRUE]
       [] j = "{finished:true,type:thinking,text:a}" ->
            [ZeroSSEData EXCEPT !.Finished = TRUE, !.Type = "thinking", !.Text = <<"a">>]
       [] j = FinishedWithText ->
            [ZeroSSEData EXCEPT !.Finished = TRUE, !.Text = <<"b">>]]

\* mutant: a payload that does not decode is taken as an empty event
UnmarshalLenient(jsonStr) ==
  IF Len(jsonStr) = 1 /\ jsonStr[1] = "{text:a}"
    THEN [ok |-> TRUE, data |-> [ZeroSSEData EXCEPT !.Text = <<"a">>]]
    ELSE [ok |-> TRUE, data |-> ZeroSSEData]

\* sonic.Unmarshal(jsonStr, sseData) on a zeroed SSEData; anything that is
\* not one JSON object fails.  Result: [ok, data].
Unmarshal(jsonStr) ==
  IF Len(jsonStr) # 1 \/ jsonStr[1] \notin JsonTokens THEN [ok |-> FALSE, data |-> ZeroSSEData]
  ELSE [ok |-> TRUE, data |-> Decoded[jsonStr[1]]]

VARIABLES
  mode,          \* "stream": StreamMonicaSSEToClient, "collect": CollectMonicaSSEToCompletion
  pc,            \* "start", "read" (blocked in or about to call ReadBytes), "done"
  err,           \* the error returned by processSSEStream once pc = "done"
  endedBy,       \* which return statement of processSSEStream was taken
  ctxTied,       \* p.ctx is the request's context (FALSE: context.Background())
  sent,          \* the lines the backend has sent so far
  net,           \* tokens sent by the backend and not yet read from the body
  reqCancelled,  \* the inbound request's context is cancelled
  rbuf,          \* bufio.Reader: tokens read from the body, not yet returned
  lineNo,        \* number of lines ReadBytes has returned
  line,          \* the line most recently returned by ReadBytes
  thinkFlag,     \* StreamMonicaSSEToClient.thinkFlag
  frames,        \* the frames the handler has handed to writer.WriteString
  wbuf,          \* bufio.Writer: frames buffered, not yet written to w
  werr,          \* bufio.Writer's sticky error
  sink,          \* the frames written to the client sink w
  sinkOk,        \* writes to w succeed
  fullContent,   \* CollectMonicaSSEToCompletion.fullContentBuilder
  completion     \* the *ChatCompletionResponse returned (<<>>: nil, or one record)

vars == << mode, pc, err, endedBy, ctxTied, sent, net, reqCancelled, rbuf,
           lineNo, line, thinkFlag, frames, wbuf, werr, sink, sinkOk,
           fullContent, completion >>

\* ------------------------------------------------ the rate limiter's state
VARIABLES
  cfg,        \* cfg.Security: [RateLimitEnabled, RateLimitRPS]
  boot,       \* "load": configuration read; "validated"; "serving": RateLimit(cfg) has returned
  limiterOn,  \* globalRateLimiter # nil
  sweeper,    \* cleanupClients: "off" (no goroutine), "wait" (select), "lock" (at rl.mu.Lock), "range"
  sweepNow,   \* cleanupInactiveClients: now
  clients,    \* rl.clients: the entries [key, limiter, lastSeen], one per key present
  readers,    \* the callers that hold rl.mu.RLock
  writer,     \* who holds rl.mu.Lock: "none", "sweeper" or a caller
  cpc,        \* each request's position in the middleware and in GetLimiter
  ckey,       \* each request's clientIP
  ct,         \* each request's time.Now() while it stores it into lastSeen
  climiter,   \* the limiter GetLimiter returned to each request: its number among those of the key (0: none)
  cmiss,      \* history of each request: how many limiters the key had when the request found
              \* the key absent (-1: it has not), and whether the sweep removed the key since
  tokens,     \* for each key, the tokens available in each limiter made for it, in order of creation
  now         \* the clock, in minutes

rlvars == << cfg, boot, limiterOn, sweeper, sweepNow, clients, readers, writer,
             cpc, ckey, ct, climiter, cmiss, tokens, now >>

\* The Collector's handler on two orders of one event sequence.
VARIABLES
  evs,        \* the events the parser delivers, in order
  alt,        \* the same events in another order
  how,        \* how alt was made of evs: an agent-status event moved, two text events swapped
  idx,        \* the events handled so far, of each sequence
  outA,       \* fullContentBuilder of the Collector that is given evs
  outB        \* fullContentBuilder of the Collector that is given alt

ovars == << evs, alt, how, idx, outA, outB >>

\* The goroutine of StreamMonicaSSEToClient that flushes on the ticker.
VARIABLES
  ftask       \* its position: "off" (not started), "select", "reset" (in writer.Flush(),
              \* b.wr.Write has returned), "fflush" (about to call f.Flush()), "exited"

fvars == << ftask >>

\* One request to /v1/chat/completions or /v1/images/generations, from the
\* service layer to the response of the error handler.
VARIABLES
  apc,           \* "idle", "send" (chat: Post in flight), "translate" (chat: the body is handed to
                 \* the SSE translation), "submit" (image: Post in flight), "select", "poll",
                 \* "sleep" (the poll loop), "done" (the response is written)
  akind,         \* "none", "chat" or "image"
  acall,         \* the outcome of the last call of the backend: "none", "nil", "network", "status"
  expectedTime,  \* GenerateImage: expectedTime, in seconds
  clk,           \* seconds since timeoutCtx was made (it stops at MaxClock)
  polls,         \* the status polls issued
  lastPoll,      \* the result of the last status poll
  goErr,         \* the error monica.GenerateImage / SendMonicaRequest returned ("none": not yet)
  resp,          \* the response to the client: [status, code]
  aCancelled     \* the request's context is cancelled

avars == << apc, akind, acall, expectedTime, clk, polls, lastPoll, goErr, resp, aCancelled >>

NoPoll == [err |-> "none", code |-> 0, urls |-> 0]

NoResp == [status |-> 0, code |-> 0]

\* no request is being served
ApiIdle ==
  /\ apc = "idle" /\ akind = "none" /\ acall = "none"
  /\ expectedTime = 0 /\ clk = 0 /\ polls = 0 /\ lastPoll = NoPoll
  /\ goErr = "none" /\ resp = NoResp /\ aCancelled = FALSE

\* Requests served at the same time, and what they share: the random source
\* of utils.RandStringUsingMathRand, sseDataPool and stringBuilderPool.
VARIABLES
  hpc,        \* position of each request: "idle", "cget", "load", "store", "get", "decode",
              \* "handle", "write", "put", "cput", "done"
  hmode,      \* "none", "stream" or "collect"
  seed,       \* the state of randSource
  tmp,        \* the state each request has read in randSource.Intn and not yet written back
  hid,        \* the values each request has drawn
  pool,       \* sseDataPool: the objects put back
  made,       \* the objects sseDataPool.New has made
  objData,    \* the SSEData each object holds
  held,       \* the object each request holds (0: none)
  sbpool,     \* stringBuilderPool: the builders put back
  sbmade,     \* the builders stringBuilderPool.New has made
  sbheld,     \* the builder each request holds (0: none)
  hcount,     \* the lines each request has decoded
  hlast,      \* the payload each request decoded last
  hseen,      \* the event its handler was given last
  herr        \* the error that ends the request's stream ("nil": none)

pvars == << hpc, hmode, seed, tmp, hid, pool, made, objData, held, sbpool, sbmade,
            sbheld, hcount, hlast, hseen, herr >>

\* no request is in the handlers that share the random source and the pools
PoolIdle ==
  /\ hpc = [h \in 1..NumCallers |-> "idle"]
  /\ hmode = [h \in 1..NumCallers |-> "none"]
  /\ seed = 0
  /\ tmp = [h \in 1..NumCallers |-> 0]
  /\ hid = [h \in 1..NumCallers |-> <<>>]
  /\ pool = <<>> /\ made = 0
  /\ objData = [o \in 1..MaxObjs |-> ZeroSSEData]
  /\ held = [h \in 1..NumCallers |-> 0]
  /\ sbpool = <<>> /\ sbmade = 0
  /\ sbheld = [h \in 1..NumCallers |-> 0]
  /\ hcount = [h \in 1..NumCallers |-> 0]
  /\ hlast = [h \in 1..NumCallers |-> ""]
  /\ hseen = [h \in 1..NumCallers |-> ZeroSSEData]
  /\ herr = [h \in 1..NumCallers |-> "nil"]

NoChange == [kind |-> "none", i |-> 0, j |-> 0]

\* no event sequence is being compared
OrderIdle ==
  /\ evs = <<>> /\ alt = <<>> /\ how = NoChange /\ idx = 0
  /\ outA = <<>> /\ outB = <<>>

\* cleanupInactiveClients: threshold, in minutes
threshold == 10

\* the client keys (getClientIP) and the values RATE_LIMIT_RPS is given
Keys == {"k1", "k2"}

RPSValues == {0, 1}

\* the clock advances in steps of the threshold
Tick == threshold

Callers == 1..NumCallers

NoMiss == [made |-> -1, swept |-> FALSE]

\* the requests' variables when no request is in the middleware
CallersIdle ==
  /\ cpc = [p \in Callers |-> "idle"]
  /\ ckey = [p \in Callers |-> ""]
  /\ ct = [p \in Callers |-> 0]
  /\ climiter = [p \in Callers |-> 0]
  /\ cmiss = [p \in Callers |-> NoMiss]

\* the process has loaded the configuration c (config.Load before Validate):
\* no limiter, no registry, no sweep goroutine
RLInitWith(c) ==
  /\ cfg = c /\ boot = "load"
  /\ limiterOn = FALSE /\ sweeper = "off" /\ sweepNow = 0
  /\ clients = {} /\ readers = {} /\ writer = "none"
  /\ CallersIdle
  /\ tokens = [k \in Keys |-> <<>>]
  /\ now = 0

\* p.ctx.Done() is closed: only a context tied to the request is ever cancelled
ctxDone == ctxTied /\ reqCancelled

\* ------------------------------------------------------------ bufio.Reader
HasNewline(buf) == \E i \in 1..Len(buf) : buf[i] = NL

FirstNewline(buf) == CHOOSE i \in 1..Len(buf) : buf[i] = NL /\ \A j \in 1..(i-1) : buf[j] # NL

\* mutant: what is buffered behind the line is discarded
ReadBytesDropRest(buf) ==
  [line |-> SubSeq(buf, 1, FirstNewline(buf)), rest |-> <<>>]

\* (*bufio.Reader).ReadBytes('\n') when a newline is buffered: the line up to
\* and including the first newline; the rest stays buffered
ReadBytes(buf) ==
  LET n == FirstNewline(buf) IN
  [line |-> SubSeq(buf, 1, n), rest |-> SubSeq(buf, n + 1, Len(buf))]

\* bytes.TrimSpace(line[len(dataPrefix):]): the payload of a data line
PayloadOf(l) == SubSeq(l, 2, Len(l) - 1)

\* ------------------------------------------------------------ bufio.Writer
\* The writer is the record [buf, err, sink]: the buffered frames, the sticky
\* error and the frames that have reached w.

\* (*bufio.Writer).Flush
Flush(w) ==
  IF w.err \/ w.buf = <<>> THEN w
  ELSE IF sinkOk THEN [w EXCEPT !.sink = w.sink \o w.buf, !.buf = <<>>]
  ELSE [w EXCEPT !.err = TRUE]

\* (*bufio.Writer).WriteString(frame); fits: the frame fits in the space
\* available in the buffer.  The resulting writer; it failed iff .err is set.
WriteString(w, frame, fits) ==
  IF w.err THEN w
  ELSE IF fits THEN [w EXCEPT !.buf = Append(w.buf, frame)]
  ELSE LET f == Flush(w) IN
       IF f.err THEN f
       ELSE IF sinkOk THEN [f EXCEPT !.buf = <<frame>>]
       ELSE [f EXCEPT !.err = TRUE]

\* ------------------------------------------------ StreamMonicaSSEToClient
\* the values fixed before the loop: "chatcmpl-" + chatId, now, fingerprint
\* and the model parameter
chatId == "chatcmpl-id"

nowUnix == 1

fingerprint == "fp"

model == "model"

\* the fields every case of the switch sets alike: ID, Created, Model
Session == [id |-> chatId, created |-> nowUnix, model |-> model]

\* mutant: the default case does not reset thinkFlag
TranslateNoReset(sseData, flag) ==
  IF sseData.Finished THEN
    [content |-> <<>>, finish |-> "stop", fp |-> "", flag |-> flag,
     id |-> Session.id, created |-> Session.created, model |-> Session.model]
  ELSE IF sseData.Type = "thinking" THEN
    [content |-> <<thinkOpen>>, finish |-> "null", fp |-> fingerprint, flag |-> TRUE,
     id |-> Session.id, created |-> Session.created, model |-> Session.model]
  ELSE IF sseData.Type = "thinking_detail_stream" THEN
    [content |-> sseData.ReasoningDetail, finish |-> "null", fp |-> fingerprint, flag |-> flag,
     id |-> Session.id, created |-> Session.created, model |-> Session.model]
  ELSE
    [content |-> IF flag THEN <<thinkClose>> \o sseData.Text ELSE sseData.Text,
     finish |-> "null", fp |-> fingerprint, flag |-> flag,
     id |-> Session.id, created |-> Session.created, model |-> Session.model]

\* the switch that builds sseMsg (and updates thinkFlag) for one event
Translate(sseData, flag) ==
  IF sseData.Finished THEN
    [content |-> <<>>, finish |-> "stop", fp |-> "", flag |-> flag,
     id |-> Session.id, created |-> Session.created, model |-> Session.model]
  ELSE IF sseData.Type = "thinking" THEN
    [content |-> <<thinkOpen>>, finish |-> "null", fp |-> fingerprint, flag |-> TRUE,
     id |-> Session.id, created |-> Session.created, model |-> Session.model]
  ELSE IF sseData.Type = "thinking_detail_stream" THEN
    [content |-> sseData.ReasoningDetail, finish |-> "null", fp |-> fingerprint, flag |-> flag,
     id |-> Session.id, created |-> Session.created, model |-> Session.model]
  ELSE
    [content |-> IF flag THEN <<thinkClose>> \o sseData.Text ELSE sseData.Text,
     finish |-> "null", fp |-> fingerprint, flag |-> FALSE,
     id |-> Session.id, created |-> Session.created, model |-> Session.model]

\* mutant: every frame is marshalled with finish_reason null
ChunkFrameNullFinish(msg, src) ==
  [kind |-> "chunk", content |-> msg.content, finish |-> "null", fp |-> msg.fp,
   id |-> msg.id, created |-> msg.created, model |-> msg.model, src |-> src]

\* "data: " + JSON(sseMsg) + "\n\n"
ChunkFrame(msg, src) ==
  [kind |-> "chunk", content |-> msg.content, finish |-> msg.finish, fp |-> msg.fp,
   id |-> msg.id, created |-> msg.created, model |-> msg.model, src |-> src]

\* "data: " + "[DONE]" + "\n\n"
DoneFrame(src) ==
  [kind |-> "raw", content |-> <<sseFinish>>, finish |-> "", fp |-> "",
   id |-> "", created |-> 0, model |-> "", src |-> src]

\* mutant: the finished branch writes no [DONE] frame
AfterDoneNoFrame(w2, msg, src) ==
  [w |-> Flush(w2), flag |-> msg.flag, out |-> <<ChunkFrame(msg, src)>>, err |-> "nil"]

\* the handler after writer.WriteString("[DONE]") has left the writer as w2
\* (its error is not looked at): writer.Flush() and return nil
AfterDone(w2, msg, src) ==
  [w |-> Flush(w2), flag |-> msg.flag,
   out |-> IF w2.err THEN <<ChunkFrame(msg, src)>>
           ELSE <<ChunkFrame(msg, src), DoneFrame(src)>>,
   err |-> "nil"]

\* the handler after writer.WriteString(frame of msg) has left the writer as
\* w1: the write error is returned; a finished event gets the [DONE] frame
AfterChunk(sseData, w1, msg, src, fits2) ==
  IF w1.err THEN
    [w |-> w1, flag |-> msg.flag, out |-> <<>>, err |-> "write error"]
  ELSE IF sseData.Finished THEN
    AfterDone(WriteString(w1, DoneFrame(src), fits2), msg, src)
  ELSE
    [w |-> w1, flag |-> msg.flag, out |-> <<ChunkFrame(msg, src)>>, err |-> "nil"]

\* mutant: the terminal frame carries the text of the finished event
WriteChunkKeepsText(sseData, w, msg, src, fits1, fits2) ==
  AfterChunk(sseData,
             WriteString(w, ChunkFrame(IF sseData.Finished
                                         THEN [msg EXCEPT !.content = sseData.Text]
                                         ELSE msg, src), fits1),
             IF sseData.Finished THEN [msg EXCEPT !.content = sseData.Text] ELSE msg,
             src, fits2)

\* the handler once sseMsg is built: the frame is marshalled and written
WriteChunk(sseData, w, msg, src, fits1, fits2) ==
  AfterChunk(sseData, WriteString(w, ChunkFrame(msg, src), fits1), msg, src, fits2)

\* mutant: the opening marker is not written when the thinking event arrives
StreamHandlerLazyOpen(sseData, w, flag, src, fits1, fits2) ==
  LET msg == Translate(sseData, flag)
      w1 == WriteString(w, ChunkFrame(msg, src), fits1)
  IN  IF ~sseData.Finished /\ sseData.Type = "thinking" THEN
        [w |-> w, flag |-> msg.flag, out |-> <<>>, err |-> "nil"]
      ELSE IF w1.err THEN
        [w |-> w1, flag |-> msg.flag, out |-> <<>>, err |-> "write error"]
      ELSE
        [w |-> w1, flag |-> msg.flag, out |-> <<ChunkFrame(msg, src)>>, err |-> "nil"]

\* The handler closure of StreamMonicaSSEToClient on one event.  Result:
\* the writer, thinkFlag, the frames accepted by the writer and the error.
StreamHandler(sseData, w, flag, src, fits1, fits2) ==
  WriteChunk(sseData, w, Translate(sseData, flag), src, fits1, fits2)

\* ------------------------------------------- CollectMonicaSSEToCompletion
\* mutant: the handler without the agent_status check
CollectHandlerNoSkip(sseData, content) == content \o sseData.Text

\* the handler closure of CollectMonicaSSEToCompletion on one event
CollectHandler(sseData, content) ==
  IF sseData.Type # "" THEN content ELSE content \o sseData.Text

\* the response built after processSSEStream has returned e
Completion(e, content) ==
  IF e # "nil" THEN <<>>
  ELSE << [Role |-> "assistant", Content |-> content, FinishReason |-> "stop"] >>

\* ---------------------------------------------------------------- actions
TypeOK ==
  /\ mode \in {"stream", "collect"}
  /\ pc \in {"start", "read", "done"}
  /\ err \in {"none", "nil", "context canceled", "read error", "unmarshal error", "write error"}
  /\ endedBy \in {"none", "ctx", "eof", "read cancelled", "read error", "sentinel",
                  "unmarshal", "handler"}
  /\ ctxTied \in BOOLEAN /\ reqCancelled \in BOOLEAN /\ thinkFlag \in BOOLEAN
  /\ werr \in BOOLEAN /\ sinkOk \in BOOLEAN
  /\ Len(sent) <= MaxLines /\ Len(net) <= MaxNet
  /\ lineNo \in 0..MaxLines

\* the state when the handler of the inbound request has obtained the backend
\* body and is about to call StreamMonicaSSEToClient or
\* CollectMonicaSSEToCompletion; tied: the value of ctxTied
InitWith(tied) ==
  /\ mode \in {"stream", "collect"}
  /\ pc = "start" /\ err = "none" /\ endedBy = "none"
  /\ ctxTied = tied
  /\ sent = <<>> /\ net = <<>>
  /\ reqCancelled = FALSE
  /\ rbuf = <<>> /\ lineNo = 0 /\ line = <<>>
  /\ thinkFlag = FALSE
  /\ frames = <<>> /\ wbuf = <<>> /\ werr = FALSE /\ sink = <<>> /\ sinkOk = TRUE
  /\ fullContent = <<>> /\ completion = <<>>
  /\ RLInitWith([RateLimitEnabled |-> FALSE, RateLimitRPS |-> 0])
  /\ OrderIdle
  /\ ftask = "off"
  /\ ApiIdle /\ PoolIdle

\* both entry points create their context with context.Background()
Init == InitWith(FALSE)

\* the buffered writer is left as w
SetWriter(w) == wbuf' = w.buf /\ werr' = w.err /\ sink' = w.sink

\* the return of processSSEStream with error e, and what its caller does next:
\* the deferred writer.Flush() of StreamMonicaSSEToClient, the response of
\* CollectMonicaSSEToCompletion.  w, content: the writer and the builder then.
Return(e, by, w, content) ==
  /\ pc' = "done" /\ err' = e /\ endedBy' = by
  /\ fullContent' = content
  /\ IF mode = "stream"
       THEN SetWriter(Flush(w)) /\ completion' = <<>>
       ELSE SetWriter(w) /\ completion' = Completion(e, content)

\* the top of the for loop of processSSEStream: the select on p.ctx.Done(),
\* then the call of ReadBytes
LoopTop(w, content) ==
  IF ctxDone
    THEN Return("context canceled", "ctx", w, content)
    ELSE /\ pc' = "read" /\ err' = err /\ endedBy' = endedBy
         /\ fullContent' = content
         /\ SetWriter(w)
         /\ completion' = completion

Writer == [buf |-> wbuf, err |-> werr, sink |-> sink]

\* StreamMonicaSSEToClient / CollectMonicaSSEToCompletion up to the first
\* iteration of processSSEStream; the former starts the goroutine that
\* flushes on the ticker
Start ==
  /\ pc = "start"
  /\ LoopTop(Writer, fullContent)
  /\ ftask' = IF mode = "stream" THEN "select" ELSE ftask
  /\ UNCHANGED << mode, ctxTied, sent, net, reqCancelled, rbuf, lineNo, line,
                  thinkFlag, frames, sinkOk >>
  /\ UNCHANGED << rlvars, ovars, avars, pvars >>

\* the backend sends one more line
BackendSend(l) ==
  /\ pc # "done" /\ ~reqCancelled
  /\ Len(sent) < MaxLines
  /\ Len(net) + Len(l) <= MaxNet
  /\ sent' = Append(sent, l)
  /\ net' = net \o l
  /\ UNCHANGED << mode, pc, err, endedBy, ctxTied, reqCancelled, rbuf, lineNo, line,
                  thinkFlag, frames, wbuf, werr, sink, sinkOk, fullContent, completion >>
  /\ UNCHANGED << rlvars, ovars, fvars, avars, pvars >>

\* the client disconnects: the request's context is cancelled and writes to
\* the response fail from now on
CancelRequest ==
  /\ ~reqCancelled /\ pc # "done"
  /\ reqCancelled' = TRUE
  /\ sinkOk' = FALSE
  /\ UNCHANGED << mode, pc, err, endedBy, ctxTied, sent, net, rbuf, lineNo, line,
                  thinkFlag, frames, wbuf, werr, sink, fullContent, completion >>
  /\ UNCHANGED << rlvars, ovars, fvars, avars, pvars >>

\* ReadBytes: no newline buffered, the body delivers the next k tokens
Fill(k) ==
  /\ pc = "read" /\ ~HasNewline(rbuf)
  /\ k \in 1..Len(net)
  /\ rbuf' = rbuf \o SubSeq(net, 1, k)
  /\ net' = SubSeq(net, k + 1, Len(net))
  /\ UNCHANGED << mode, pc, err, endedBy, ctxTied, sent, reqCancelled, lineNo, line,
                  thinkFlag, frames, wbuf, werr, sink, sinkOk, fullContent, completion >>
  /\ UNCHANGED << rlvars, ovars, fvars, avars, pvars >>

\* mutant: the Collector's handler is given the unterminated rest where it
\* is a data line but for the newline
ReadFailedKeepsRest(t, e, by) ==
  /\ pc = "read" /\ ~HasNewline(rbuf)
  /\ line' = rbuf \o t /\ rbuf' = <<>>
  /\ Return(e, by, Writer,
            IF /\ mode = "collect" /\ Len(rbuf \o t) = 2
               /\ (rbuf \o t)[1] = dataPrefix /\ (rbuf \o t)[2] \in JsonTokens
              THEN CollectHandler(Decoded[(rbuf \o t)[2]], fullContent)
              ELSE fullContent)
  /\ UNCHANGED << mode, ctxTied, sent, net, reqCancelled, lineNo, thinkFlag,
                  frames, sinkOk >>
  /\ UNCHANGED << rlvars, ovars, fvars, avars, pvars >>

\* ReadBytes returns what is buffered (and the tokens t read with the error)
\* and an error: processSSEStream returns e
ReadFailed(t, e, by) ==
  /\ pc = "read" /\ ~HasNewline(rbuf)
  /\ line' = rbuf \o t /\ rbuf' = <<>>
  /\ Return(e, by, Writer, fullContent)
  /\ UNCHANGED << mode, ctxTied, sent, net, reqCancelled, lineNo, thinkFlag,
                  frames, sinkOk >>
  /\ UNCHANGED << rlvars, ovars, fvars, avars, pvars >>

\* mutant: io.EOF is returned like any other read error
ReadEOFAsError(t) ==
  /\ net = <<>> /\ ~reqCancelled
  /\ ~(rbuf # <<>> /\ t # <<>>)
  /\ ReadFailed(t, "read error", "eof")

\* err == io.EOF: the backend has ended the body, possibly in the middle of a
\* line (t: the unterminated rest)
ReadEOF(t) ==
  /\ net = <<>> /\ ~reqCancelled
  /\ ~(rbuf # <<>> /\ t # <<>>)
  /\ ReadFailed(t, "nil", "eof")

\* errors.Is(err, context.Canceled): the body read fails because the request
\* was cancelled
ReadCancelled == reqCancelled /\ ReadFailed(<<>>, "nil", "read cancelled")

\* any other read error: the connection to the backend breaks, or the HTTP
\* client's timeout expires
ReadError == ~reqCancelled /\ ReadFailed(<<>>, "read error", "read error")

\* the handler has returned h: its error ends processSSEStream, nil continues
AfterHandler(h) ==
  /\ thinkFlag' = h.flag
  /\ frames' = frames \o h.out
  /\ IF h.err # "nil"
       THEN Return(h.err, "handler", h.w, fullContent)
       ELSE LoopTop(h.w, fullContent)

\* mutant: thinkFlag is a variable of the handler, false at every call
HandleLineLocalFlag(ln, jsonStr, d, fits1, fits2) ==
  /\ ~(/\ mode = "stream" /\ ~werr
       /\ ln[1] = dataPrefix /\ jsonStr # <<>> /\ jsonStr # <<sseFinish>>
       /\ d.ok) => (fits1 /\ fits2)
  /\ ~d.data.Finished => fits2
  /\ IF ln[1] # dataPrefix \/ jsonStr = <<>> THEN
       \* continue
       /\ LoopTop(Writer, fullContent)
       /\ UNCHANGED << thinkFlag, frames >>
     ELSE IF jsonStr = <<sseFinish>> THEN
       /\ Return("nil", "sentinel", Writer, fullContent)
       /\ UNCHANGED << thinkFlag, frames >>
     ELSE IF ~d.ok THEN
       /\ Return("unmarshal error", "unmarshal", Writer, fullContent)
       /\ UNCHANGED << thinkFlag, frames >>
     ELSE IF mode = "collect" THEN
       /\ LoopTop(Writer, CollectHandler(d.data, fullContent))
       /\ UNCHANGED << thinkFlag, frames >>
     ELSE
       AfterHandler(StreamHandler(d.data, Writer, FALSE, lineNo + 1, fits1, fits2))

\* the body of the loop of processSSEStream for the line ln with payload
\* jsonStr, d being the result of Unmarshal(jsonStr).  fits1, fits2: the
\* outcome of the capacity test in the handler's two calls of WriteString,
\* TRUE where the call is not made
HandleLine(ln, jsonStr, d, fits1, fits2) ==
  /\ ~(/\ mode = "stream" /\ ~werr
       /\ ln[1] = dataPrefix /\ jsonStr # <<>> /\ jsonStr # <<sseFinish>>
       /\ d.ok) => (fits1 /\ fits2)
  /\ ~d.data.Finished => fits2
  /\ IF ln[1] # dataPrefix \/ jsonStr = <<>> THEN
       \* continue
       /\ LoopTop(Writer, fullContent)
       /\ UNCHANGED << thinkFlag, frames >>
     ELSE IF jsonStr = <<sseFinish>> THEN
       /\ Return("nil", "sentinel", Writer, fullContent)
       /\ UNCHANGED << thinkFlag, frames >>
     ELSE IF ~d.ok THEN
       /\ Return("unmarshal error", "unmarshal", Writer, fullContent)
       /\ UNCHANGED << thinkFlag, frames >>
     ELSE IF mode = "collect" THEN
       /\ LoopTop(Writer, CollectHandler(d.data, fullContent))
       /\ UNCHANGED << thinkFlag, frames >>
     ELSE
       AfterHandler(StreamHandler(d.data, Writer, thinkFlag, lineNo + 1, fits1, fits2))

\* mutant: the prefix is trimmed where present and never tested, so a line
\* without it is decoded as it stands
ReadLineNoPrefixTest(rb, fits1, fits2) ==
  /\ line' = rb.line
  /\ rbuf' = rb.rest
  /\ lineNo' = lineNo + 1
  /\ IF rb.line[1] = dataPrefix
       THEN HandleLine(rb.line, PayloadOf(rb.line), Unmarshal(PayloadOf(rb.line)),
                       fits1, fits2)
       ELSE HandleLine(<<dataPrefix>> \o rb.line,
                       SubSeq(rb.line, 1, Len(rb.line) - 1),
                       Unmarshal(SubSeq(rb.line, 1, Len(rb.line) - 1)),
                       fits1, fits2)

\* ReadBytes has returned rb.line and keeps rb.rest buffered
ReadLine(rb, fits1, fits2) ==
  /\ line' = rb.line
  /\ rbuf' = rb.rest
  /\ lineNo' = lineNo + 1
  /\ HandleLine(rb.line, PayloadOf(rb.line), Unmarshal(PayloadOf(rb.line)), fits1, fits2)

\* ReadBytes returns a line: one iteration of the loop of processSSEStream
ProcessLine(fits1, fits2) ==
  /\ pc = "read" /\ HasNewline(rbuf)
  /\ ReadLine(ReadBytes(rbuf), fits1, fits2)
  /\ UNCHANGED << mode, ctxTied, sent, net, reqCancelled, sinkOk >>
  /\ UNCHANGED << rlvars, ovars, fvars, avars, pvars >>

Next ==
  \/ Start
  \/ \E l \in Lines : BackendSend(l)
  \/ CancelRequest
  \/ \E k \in 1..MaxNet : Fill(k)
  \/ \E t \in Tails : ReadEOF(t)
  \/ ReadCancelled
  \/ ReadError
  \/ \E fits1, fits2 \in BOOLEAN : ProcessLine(fits1, fits2)

Spec == Init /\ [][Next]_vars

\* processSSEStream given the request's context as p.ctx
InitCtx == InitWith(TRUE)

SpecCtx == InitCtx /\ [][Next]_vars

\* ------------------------------- a complete stream of text, without failure
\* The backend sends text events, then a finished event, then the sentinel;
\* neither side fails.
TextLines == { <<dataPrefix, "{text:a}", NL>>, <<dataPrefix, "{text:b}", NL>> }

FinishedLines == { <<dataPrefix, "{finished:true}", NL>>, <<dataPrefix, FinishedWithText, NL>> }

DoneLine == <<dataPrefix, sseFinish, NL>>

StreamLines == TextLines \cup FinishedLines \cup {DoneLine}

\* l may follow the lines ls in such a stream
MayFollow(ls, l) ==
  IF \A k \in 1..Len(ls) : ls[k] \in TextLines
    THEN (l \in TextLines /\ Len(ls) < MaxTexts) \/ l \in FinishedLines
    ELSE ls[Len(ls)] \in FinishedLines /\ l = DoneLine

\* the backend sends the next line of the stream
BackendStream(l) ==
  /\ pc # "done"
  /\ MayFollow(sent, l)
  /\ Len(net) + Len(l) <= MaxNet
  /\ sent' = Append(sent, l)
  /\ net' = net \o l
  /\ UNCHANGED << mode, pc, err, endedBy, ctxTied, reqCancelled, rbuf, lineNo, line,
                  thinkFlag, frames, wbuf, werr, sink, sinkOk, fullContent, completion >>
  /\ UNCHANGED << rlvars, ovars, fvars, avars, pvars >>

NextText ==
  \/ Start
  \/ \E l \in StreamLines : BackendStream(l)
  \/ \E k \in 1..MaxNet : Fill(k)
  \/ \E fits1, fits2 \in BOOLEAN : ProcessLine(fits1, fits2)

SpecText == Init /\ [][NextText]_vars

\* ------------------------------- the two translations of one stream
\* The handler of StreamMonicaSSEToClient and the handler of
\* CollectMonicaSSEToCompletion are given the same events, one by one, as
\* processSSEStream would give them to either; the client's connection holds
\* and the frames fit the buffer.

\* the next event of the stream is handled by both
BothEvent(j) ==
  /\ pc # "done" /\ mode = "stream"
  /\ Len(sent) < MaxEvents
  /\ sent' = Append(sent, <<dataPrefix, j, NL>>)
  /\ line' = <<dataPrefix, j, NL>>
  /\ lineNo' = lineNo + 1
  /\ thinkFlag' = StreamHandler(Unmarshal(<<j>>).data, Writer, thinkFlag,
                                lineNo + 1, TRUE, TRUE).flag
  /\ frames' = frames \o StreamHandler(Unmarshal(<<j>>).data, Writer, thinkFlag,
                                       lineNo + 1, TRUE, TRUE).out
  /\ SetWriter(StreamHandler(Unmarshal(<<j>>).data, Writer, thinkFlag,
                             lineNo + 1, TRUE, TRUE).w)
  /\ fullContent' = CollectHandler(Unmarshal(<<j>>).data, fullContent)
  /\ pc' = "read"
  /\ UNCHANGED << mode, err, endedBy, ctxTied, net, reqCancelled, rbuf, sinkOk, completion >>
  /\ UNCHANGED << rlvars, ovars, fvars, avars, pvars >>

\* the stream ends with data: [DONE]: the emitter's deferred Flush, the
\* Collector's response
BothDone ==
  /\ pc # "done" /\ mode = "stream"
  /\ sent' = Append(sent, DoneLine)
  /\ line' = DoneLine
  /\ lineNo' = lineNo + 1
  /\ pc' = "done" /\ err' = "nil" /\ endedBy' = "sentinel"
  /\ SetWriter(Flush(Writer))
  /\ completion' = Completion("nil", fullContent)
  /\ UNCHANGED << mode, ctxTied, net, reqCancelled, rbuf, thinkFlag, frames, sinkOk,
                  fullContent >>
  /\ UNCHANGED << rlvars, ovars, fvars, avars, pvars >>

InitBoth == Init /\ mode = "stream"

NextBoth ==
  \/ \E j \in JsonTokens : BothEvent(j)
  \/ BothDone

SpecBoth == InitBoth /\ [][NextBoth]_vars

\* ------------------------------------------- the flush on the ticker
\* The goroutine started by StreamMonicaSSEToClient calls writer.Flush() and
\* f.Flush() on every tick, on the bufio.Writer that the handler writes to
\* and flushes; nothing orders the two goroutines' accesses to it.  Each
\* step of the handler is one step here, and the goroutine's writer.Flush()
\* is two: b.wr.Write(b.buf[0:b.n]), and b.n = 0 once the write has returned.

\* case <-ticker.C, while the ticker is not stopped: writer.Flush() up to the
\* return of b.wr.Write (at once if there is an error or nothing buffered)
TickFlush ==
  /\ ftask = "select" /\ pc # "done"
  /\ IF werr \/ wbuf = <<>> THEN
       /\ ftask' = "fflush"
       /\ UNCHANGED << sink, werr >>
     ELSE IF sinkOk THEN
       /\ sink' = sink \o wbuf
       /\ ftask' = "reset"
       /\ UNCHANGED werr
     ELSE
       /\ werr' = TRUE
       /\ ftask' = "fflush"
       /\ UNCHANGED sink
  /\ UNCHANGED << mode, pc, err, endedBy, ctxTied, sent, net, reqCancelled, rbuf,
                  lineNo, line, thinkFlag, frames, wbuf, sinkOk, fullContent, completion >>
  /\ UNCHANGED << rlvars, ovars, avars, pvars >>

\* the end of the goroutine's writer.Flush(): b.n = 0
TickReset ==
  /\ ftask = "reset"
  /\ wbuf' = <<>>
  /\ ftask' = "fflush"
  /\ UNCHANGED << mode, pc, err, endedBy, ctxTied, sent, net, reqCancelled, rbuf,
                  lineNo, line, thinkFlag, frames, werr, sink, sinkOk, fullContent,
                  completion >>
  /\ UNCHANGED << rlvars, ovars, avars, pvars >>

\* the goroutine's f.Flush(), and back to the select
TickSinkFlush ==
  /\ ftask = "fflush"
  /\ ftask' = "select"
  /\ UNCHANGED << vars, rlvars, ovars, avars, pvars >>

\* mutant: done is closed at the successful return only, not by a defer
TaskExitOnSuccessOnly ==
  /\ ftask = "select" /\ pc = "done" /\ err = "nil"
  /\ ftask' = "exited"
  /\ UNCHANGED << vars, rlvars, ovars, avars, pvars >>

\* case <-done: the channel is closed by the deferred close(done) when
\* processSSEStream has returned
TaskExit ==
  /\ ftask = "select" /\ pc = "done"
  /\ ftask' = "exited"
  /\ UNCHANGED << vars, rlvars, ovars, avars, pvars >>

NextFlush ==
  \/ Start
  \/ \E l \in StreamLines : BackendStream(l)
  \/ CancelRequest
  \/ \E k \in 1..MaxNet : Fill(k)
  \/ \E t \in Tails : ReadEOF(t)
  \/ ReadCancelled
  \/ ReadError
  \/ \E fits1, fits2 \in BOOLEAN : ProcessLine(fits1, fits2)
  \/ TickFlush
  \/ TickReset
  \/ TickSinkFlush
  \/ TaskExit

SpecFlush == Init /\ [][NextFlush]_<< vars, fvars >>

\* the lines of a backend whose stream can take each way out of
\* processSSEStream: text, the finished event, the sentinel, a payload that
\* does not decode
ExitLines ==
  { <<dataPrefix, "{text:a}", NL>>, <<dataPrefix, "{finished:true}", NL>>,
    DoneLine, <<dataPrefix, BadToken, NL>> }

NextTask ==
  \/ Start
  \/ \E l \in ExitLines : BackendSend(l)
  \/ CancelRequest
  \/ \E k \in 1..MaxNet : Fill(k)
  \/ \E t \in Tails : ReadEOF(t)
  \/ ReadCancelled
  \/ ReadError
  \/ \E fits1, fits2 \in BOOLEAN : ProcessLine(fits1, fits2)
  \/ TickFlush
  \/ TickReset
  \/ TickSinkFlush
  \/ TaskExit

\* the goroutine is scheduled: a Flush it has begun returns, f.Flush()
\* returns, and the select takes the closed done channel (the ticker is
\* stopped by the deferred ticker.Stop(), so no other case stays ready)
FairTask ==
  /\ WF_<< vars, fvars >>(TickReset)
  /\ WF_<< vars, fvars >>(TickSinkFlush)
  /\ WF_<< vars, fvars >>(TaskExit)

SpecTask == Init /\ [][NextTask]_<< vars, fvars >>

SpecTaskFair == SpecTask /\ FairTask

\* ---------------------------------------------------------- rate limiter
\* The middleware RateLimit, the registry RateLimiter with GetLimiter, and the
\* goroutine cleanupClients.  rl.mu is the pair (readers, writer); a step of
\* a request is a step between two operations on rl.mu or on an entry.

\* the entries of rl.clients with key k (a map: rl.clients[k])
EntriesOf(k) == { e \in clients : e.key = k }

\* rl.clients[k] = entry
MapAssign(k, entry) == (clients \ EntriesOf(k)) \cup {entry}

\* time.Now(): the wall clock reading and the monotonic clock reading, the
\* two words of a time.Time that the comparison of times looks at
TimeNow == [wall |-> now, ext |-> now]

\* the number of limiters made so far for key k by rate.NewLimiter
created(k) == Len(tokens[k])

\* NewRateLimiter: burst = rps
burst == cfg.RateLimitRPS

\* mutant: Validate leaves the configuration as it is
ValidateKeepsEnabled ==
  /\ boot = "load"
  /\ boot' = "validated"
  /\ UNCHANGED << cfg, limiterOn, sweeper, sweepNow, clients, readers, writer,
                  cpc, ckey, ct, climiter, cmiss, tokens, now >>
  /\ UNCHANGED << vars, ovars, fvars, avars, pvars >>

\* (*Config).Validate: a non-positive RPS disables rate limiting
Validate ==
  /\ boot = "load"
  /\ boot' = "validated"
  /\ cfg' = IF cfg.RateLimitRPS <= 0 THEN [cfg EXCEPT !.RateLimitEnabled = FALSE] ELSE cfg
  /\ UNCHANGED << limiterOn, sweeper, sweepNow, clients, readers, writer,
                  cpc, ckey, ct, climiter, cmiss, tokens, now >>
  /\ UNCHANGED << vars, ovars, fvars, avars, pvars >>

\* RateLimit(cfg): the pass-through middleware when disabled; otherwise
\* rateLimiterOnce.Do(NewRateLimiter), which starts go rl.cleanupClients()
RateLimit ==
  /\ boot = "validated"
  /\ boot' = "serving"
  /\ IF ~cfg.RateLimitEnabled
       THEN UNCHANGED << limiterOn, sweeper >>
       ELSE limiterOn' = TRUE /\ sweeper' = "wait"
  /\ UNCHANGED << cfg, sweepNow, clients, readers, writer,
                  cpc, ckey, ct, climiter, cmiss, tokens, now >>
  /\ UNCHANGED << vars, ovars, fvars, avars, pvars >>

\* a request of client k enters the middleware: next(c) at once when rate
\* limiting is disabled, else globalRateLimiter.GetLimiter(clientIP)
Request(p, k) ==
  /\ boot = "serving" /\ cpc[p] = "idle"
  /\ IF ~cfg.RateLimitEnabled
       THEN cpc' = [cpc EXCEPT ![p] = "next"] /\ UNCHANGED ckey
       ELSE /\ cpc' = [cpc EXCEPT ![p] = "rlock"]
            /\ ckey' = [ckey EXCEPT ![p] = k]
  /\ UNCHANGED << cfg, boot, limiterOn, sweeper, sweepNow, clients, readers, writer,
                  ct, climiter, cmiss, tokens, now >>
  /\ UNCHANGED << vars, ovars, fvars, avars, pvars >>

\* rl.mu.RLock(): sync.RWMutex admits no new reader while a writer holds the
\* lock or the sweep is blocked in Lock()
RLock(p) ==
  /\ cpc[p] = "rlock" /\ writer = "none" /\ sweeper # "lock"
  /\ readers' = readers \cup {p}
  /\ cpc' = [cpc EXCEPT ![p] = "lookup"]
  /\ UNCHANGED << cfg, boot, limiterOn, sweeper, sweepNow, clients, writer,
                  ckey, ct, climiter, cmiss, tokens, now >>
  /\ UNCHANGED << vars, ovars, fvars, avars, pvars >>

\* entry, exists := rl.clients[clientIP]; if it exists, the assignment
\* entry.lastSeen = time.Now() begins: time.Time is several words wide and
\* the store is made with the read lock only, so it is not atomic; the first
\* word is stored here.  If the key is absent: rl.mu.RUnlock()
Lookup(p) ==
  /\ cpc[p] = "lookup"
  /\ IF EntriesOf(ckey[p]) # {}
       THEN LET e == CHOOSE x \in EntriesOf(ckey[p]) : TRUE IN
            /\ ct' = [ct EXCEPT ![p] = now]
            /\ clients' = MapAssign(e.key, [e EXCEPT !.lastSeen.wall = now])
            /\ cpc' = [cpc EXCEPT ![p] = "refresh"]
            /\ UNCHANGED << readers, cmiss >>
       ELSE /\ readers' = readers \ {p}
            /\ cmiss' = [cmiss EXCEPT ![p] = [made |-> created(ckey[p]), swept |-> FALSE]]
            /\ cpc' = [cpc EXCEPT ![p] = "lock"]
            /\ UNCHANGED << ct, clients >>
  /\ UNCHANGED << cfg, boot, limiterOn, sweeper, sweepNow, writer,
                  ckey, climiter, tokens, now >>
  /\ UNCHANGED << vars, ovars, fvars, avars, pvars >>

\* the rest of entry.lastSeen = time.Now(), rl.mu.RUnlock(), return entry.limiter
Refresh(p) ==
  /\ cpc[p] = "refresh"
  /\ LET e == CHOOSE x \in EntriesOf(ckey[p]) : TRUE IN
     /\ clients' = MapAssign(e.key, [e EXCEPT !.lastSeen.ext = ct[p]])
     /\ climiter' = [climiter EXCEPT ![p] = e.limiter]
  /\ ct' = [ct EXCEPT ![p] = 0]
  /\ readers' = readers \ {p}
  /\ cpc' = [cpc EXCEPT ![p] = "allow"]
  /\ UNCHANGED cmiss
  /\ UNCHANGED << cfg, boot, limiterOn, sweeper, sweepNow, writer,
                  ckey, tokens, now >>
  /\ UNCHANGED << vars, ovars, fvars, avars, pvars >>

\* rl.mu.Lock()
Lock(p) ==
  /\ cpc[p] = "lock" /\ writer = "none" /\ readers = {}
  /\ writer' = "caller"
  /\ cpc' = [cpc EXCEPT ![p] = "check"]
  /\ UNCHANGED << cfg, boot, limiterOn, sweeper, sweepNow, clients, readers,
                  ckey, ct, climiter, cmiss, tokens, now >>
  /\ UNCHANGED << vars, ovars, fvars, avars, pvars >>

\* mutant: the entry is created without the second lookup
CheckNoDoubleCheck(p) ==
  /\ cpc[p] = "check"
  /\ tokens' = [tokens EXCEPT ![ckey[p]] = Append(@, burst)]
  /\ clients' = MapAssign(ckey[p], [key |-> ckey[p], limiter |-> created(ckey[p]) + 1,
                                     lastSeen |-> TimeNow])
  /\ climiter' = [climiter EXCEPT ![p] = created(ckey[p]) + 1]
  /\ writer' = "none"
  /\ cpc' = [cpc EXCEPT ![p] = "allow"]
  /\ UNCHANGED cmiss
  /\ UNCHANGED << cfg, boot, limiterOn, sweeper, sweepNow, readers,
                  ckey, ct, now >>
  /\ UNCHANGED << vars, ovars, fvars, avars, pvars >>

\* under the write lock: the double check, then rate.NewLimiter(rl.rate,
\* rl.burst) and the insertion; the deferred rl.mu.Unlock()
Check(p) ==
  /\ cpc[p] = "check"
  /\ IF EntriesOf(ckey[p]) # {}
       THEN LET e == CHOOSE x \in EntriesOf(ckey[p]) : TRUE IN
            /\ clients' = MapAssign(e.key, [e EXCEPT !.lastSeen = TimeNow])
            /\ climiter' = [climiter EXCEPT ![p] = e.limiter]
            /\ UNCHANGED tokens
       ELSE /\ tokens' = [tokens EXCEPT ![ckey[p]] = Append(@, burst)]
            /\ clients' = MapAssign(ckey[p], [key |-> ckey[p], limiter |-> created(ckey[p]) + 1,
                                               lastSeen |-> TimeNow])
            /\ climiter' = [climiter EXCEPT ![p] = created(ckey[p]) + 1]
  /\ writer' = "none"
  /\ cpc' = [cpc EXCEPT ![p] = "allow"]
  /\ UNCHANGED cmiss
  /\ UNCHANGED << cfg, boot, limiterOn, sweeper, sweepNow, readers,
                  ckey, ct, now >>
  /\ UNCHANGED << vars, ovars, fvars, avars, pvars >>

\* limiter.Allow(): next(c) if a token is available, else the 429 error
Allow(p) ==
  /\ cpc[p] = "allow"
  /\ IF tokens[ckey[p]][climiter[p]] > 0
       THEN /\ tokens' = [tokens EXCEPT ![ckey[p]][climiter[p]] = @ - 1]
            /\ cpc' = [cpc EXCEPT ![p] = "next"]
       ELSE /\ cpc' = [cpc EXCEPT ![p] = "limited"]
            /\ UNCHANGED tokens
  /\ climiter' = [climiter EXCEPT ![p] = 0]
  /\ cmiss' = [cmiss EXCEPT ![p] = NoMiss]
  /\ ckey' = [ckey EXCEPT ![p] = ""]
  /\ UNCHANGED << cfg, boot, limiterOn, sweeper, sweepNow, clients, readers, writer,
                  ct, now >>
  /\ UNCHANGED << vars, ovars, fvars, avars, pvars >>

\* the request is over: next(c) has returned, or the 429 error was returned
Done(p) ==
  /\ cpc[p] \in {"next", "limited"}
  /\ cpc' = [cpc EXCEPT ![p] = "idle"]
  /\ UNCHANGED << cfg, boot, limiterOn, sweeper, sweepNow, clients, readers, writer,
                  ckey, ct, climiter, cmiss, tokens, now >>
  /\ UNCHANGED << vars, ovars, fvars, avars, pvars >>

\* cleanupClients: the ticker fires; cleanupInactiveClients reads now and
\* calls rl.mu.Lock()
SweepTick ==
  /\ sweeper = "wait"
  /\ sweepNow' = now
  /\ sweeper' = "lock"
  /\ UNCHANGED << cfg, boot, limiterOn, clients, readers, writer,
                  cpc, ckey, ct, climiter, cmiss, tokens, now >>
  /\ UNCHANGED << vars, ovars, fvars, avars, pvars >>

\* mutant: the sweep does not wait for the lock
SweepLockNoWait ==
  /\ sweeper = "lock"
  /\ writer' = "sweeper"
  /\ sweeper' = "range"
  /\ UNCHANGED << cfg, boot, limiterOn, sweepNow, clients, readers,
                  cpc, ckey, ct, climiter, cmiss, tokens, now >>
  /\ UNCHANGED << vars, ovars, fvars, avars, pvars >>

\* cleanupInactiveClients: rl.mu.Lock() returns
SweepLock ==
  /\ sweeper = "lock" /\ writer = "none" /\ readers = {}
  /\ writer' = "sweeper"
  /\ sweeper' = "range"
  /\ UNCHANGED << cfg, boot, limiterOn, sweepNow, clients, readers,
                  cpc, ckey, ct, climiter, cmiss, tokens, now >>
  /\ UNCHANGED << vars, ovars, fvars, avars, pvars >>

\* mutant: the sweep waits for twice the threshold
InactiveTwice(e, t) == t - e.lastSeen.ext > 2 * threshold

\* now.Sub(entry.lastSeen) > threshold; both times carry a monotonic
\* reading, which is what Sub compares
Inactive(e, t) == t - e.lastSeen.ext > threshold

\* cleanupInactiveClients: the range loop with its deletions, and the
\* deferred rl.mu.Unlock()
SweepRange ==
  /\ sweeper = "range"
  /\ clients' = { e \in clients : ~Inactive(e, sweepNow) }
  /\ cmiss' = [p \in Callers |->
                IF cpc[p] = "lock" /\ \E e \in EntriesOf(ckey[p]) : Inactive(e, sweepNow)
                  THEN [cmiss[p] EXCEPT !.swept = TRUE] ELSE cmiss[p]]
  /\ writer' = "none"
  /\ sweeper' = "wait"
  /\ sweepNow' = 0
  /\ UNCHANGED << cfg, boot, limiterOn, readers,
                  cpc, ckey, ct, climiter, tokens, now >>
  /\ UNCHANGED << vars, ovars, fvars, avars, pvars >>

\* Tick minutes pass; every token bucket is full again
Advance ==
  /\ limiterOn /\ now + Tick <= MaxTime
  /\ now' = now + Tick
  /\ tokens' = [k \in Keys |-> [i \in DOMAIN tokens[k] |-> burst]]
  /\ UNCHANGED << cfg, boot, limiterOn, sweeper, sweepNow, clients, readers, writer,
                  cpc, ckey, ct, climiter, cmiss >>
  /\ UNCHANGED << vars, ovars, fvars, avars, pvars >>

\* a second passes: rl.rate = burst tokens a second, so every bucket is full
\* again; the clock of minutes stays
Refill ==
  /\ \E k \in Keys : \E i \in DOMAIN tokens[k] : tokens[k][i] < burst
  /\ tokens' = [k \in Keys |-> [i \in DOMAIN tokens[k] |-> burst]]
  /\ UNCHANGED << cfg, boot, limiterOn, sweeper, sweepNow, clients, readers, writer,
                  cpc, ckey, ct, climiter, cmiss, now >>
  /\ UNCHANGED << vars, ovars, fvars, avars, pvars >>

\* no stream is being translated
StreamIdle ==
  /\ mode = "stream" /\ pc = "start" /\ err = "none" /\ endedBy = "none"
  /\ ctxTied = FALSE /\ sent = <<>> /\ net = <<>> /\ reqCancelled = FALSE
  /\ rbuf = <<>> /\ lineNo = 0 /\ line = <<>> /\ thinkFlag = FALSE
  /\ frames = <<>> /\ wbuf = <<>> /\ werr = FALSE /\ sink = <<>> /\ sinkOk = TRUE
  /\ fullContent = <<>> /\ completion = <<>>
  /\ ftask = "off"

\* the process starts with any configuration
InitRL ==
  /\ StreamIdle /\ OrderIdle /\ ApiIdle /\ PoolIdle
  /\ \E c \in [RateLimitEnabled : BOOLEAN, RateLimitRPS : RPSValues] : RLInitWith(c)


NextRL ==
  \/ Validate
  \/ RateLimit
  \/ \E p \in Callers, k \in Keys : Request(p, k)
  \/ \E p \in Callers : RLock(p)
  \/ \E p \in Callers : Lookup(p)
  \/ \E p \in Callers : Refresh(p)
  \/ \E p \in Callers : Lock(p)
  \/ \E p \in Callers : Check(p)
  \/ \E p \in Callers : Allow(p)
  \/ \E p \in Callers : Done(p)
  \/ SweepTick
  \/ SweepLock
  \/ SweepRange
  \/ Advance
  \/ Refill

SpecRL == InitRL /\ [][NextRL]_rlvars

\* The goroutines are scheduled: a request that holds rl.mu goes on to
\* release it, the ticker of cleanupClients fires again and again, and the
\* sweep's Lock() returns once the lock is free (RLock admits no new reader
\* meanwhile).  Nothing is assumed of the arrival of requests or of the clock.
FairRL ==
  /\ \A p \in Callers : WF_rlvars(Lookup(p))
  /\ \A p \in Callers : WF_rlvars(Refresh(p))
  /\ \A p \in Callers : WF_rlvars(Check(p))
  /\ WF_rlvars(SweepTick)
  /\ WF_rlvars(SweepLock)
  /\ WF_rlvars(SweepRange)

SpecRLFair == InitRL /\ [][NextRL]_rlvars /\ FairRL

\* ------------------------------------- the Collector on reordered events
\* the events given to the handler: text events without agent status, of
\* one and of two characters, and events with an agent status, one with text
OrderEvents ==
  { [ZeroSSEData EXCEPT !.Text = t] : t \in { <<"a">>, <<"b">>, <<"a", "a">> } }
    \cup { [ZeroSSEData EXCEPT !.Type = "thinking"],
           [ZeroSSEData EXCEPT !.Type = "other", !.Text = <<"c">>] }

\* the sequences of at most n elements of S
SeqUpTo(S, n) == UNION { [1..m -> S] : m \in 0..n }

\* s without its element i; s with x put in as element j
RemoveAt(s, i) == SubSeq(s, 1, i - 1) \o SubSeq(s, i + 1, Len(s))

InsertAt(s, j, x) == SubSeq(s, 1, j - 1) \o <<x>> \o SubSeq(s, j, Len(s))

\* any sequence of events, not yet handled
InitOrder ==
  /\ StreamIdle /\ ApiIdle /\ PoolIdle
  /\ RLInitWith([RateLimitEnabled |-> FALSE, RateLimitRPS |-> 0])
  /\ evs \in SeqUpTo(OrderEvents, MaxEvents)
  /\ alt = evs /\ how = NoChange /\ idx = 0
  /\ outA = <<>> /\ outB = <<>>

\* alt: the agent-status event i of evs is moved to position j
Move(i, j) ==
  /\ how = NoChange
  /\ i \in 1..Len(evs) /\ j \in 1..Len(evs) /\ i # j
  /\ evs[i].Type # ""
  /\ alt' = InsertAt(RemoveAt(evs, i), j, evs[i])
  /\ how' = [kind |-> "move", i |-> i, j |-> j]
  /\ UNCHANGED << evs, idx, outA, outB >>
  /\ UNCHANGED << vars, rlvars, fvars, avars, pvars >>

\* alt: the text events i and j of evs are swapped
Swap(i, j) ==
  /\ how = NoChange
  /\ i \in 1..Len(evs) /\ j \in 1..Len(evs) /\ i < j
  /\ evs[i].Type = "" /\ evs[j].Type = ""
  /\ alt' = [evs EXCEPT ![i] = evs[j], ![j] = evs[i]]
  /\ how' = [kind |-> "swap", i |-> i, j |-> j]
  /\ UNCHANGED << evs, idx, outA, outB >>
  /\ UNCHANGED << vars, rlvars, fvars, avars, pvars >>

\* each Collector's handler is called with its next event
CollectNext ==
  /\ how # NoChange /\ idx < Len(evs)
  /\ idx' = idx + 1
  /\ outA' = CollectHandler(evs[idx + 1], outA)
  /\ outB' = CollectHandler(alt[idx + 1], outB)
  /\ UNCHANGED << evs, alt, how >>
  /\ UNCHANGED << vars, rlvars, fvars, avars, pvars >>

NextOrder ==
  \/ \E i, j \in 1..MaxEvents : Move(i, j)
  \/ \E i, j \in 1..MaxEvents : Swap(i, j)
  \/ CollectNext

SpecOrder == InitOrder /\ [][NextOrder]_ovars

\* ------------------------------------------- the requests and their errors
\* errors.ErrorCode
ErrInternal == 1000

ErrTimeout == 1005

ErrRequestFailed == 1006

ErrInvalidInput == 2007

ErrEmptyMessage == 2009

ErrImageGeneration == 2010

\* net/http status codes
StatusOK == 200

StatusBadRequest == 400

StatusInternalServerError == 500

StatusBadGateway == 502

\* the constructors of *errors.AppError: the code and the HTTP status
NewInternalError == [Code |-> ErrInternal, Status |-> StatusInternalServerError]

NewInvalidInputError == [Code |-> ErrInvalidInput, Status |-> StatusBadRequest]

NewEmptyMessageError == [Code |-> ErrEmptyMessage, Status |-> StatusBadRequest]

NewImageGenerationError == [Code |-> ErrImageGeneration, Status |-> StatusInternalServerError]

NewRequestFailedError == [Code |-> ErrRequestFailed, Status |-> StatusBadGateway]

\* middleware.ErrorHandler on an *errors.AppError: c.JSON(status, response)
\* with error.code = appErr.Code
ErrorHandler(appErr) == [status |-> appErr.Status, code |-> appErr.Code]

\* the clock stops at a value past every deadline
MaxClock == 2 * MaxExpected + 1

\* what req.Post returns: err is "network" (the transport failed), "status"
\* (the OnAfterResponse hook: StatusCode() >= 400) or "nil".  A cancelled
\* context fails the call.
PostErrs == {"nil", "network", "status"}

\* the outcomes of the submission: the call failed; the body does not parse;
\* code and data.expected_time
SubmitResults ==
  { [err |-> e, parses |-> FALSE, code |-> 0, expected |-> 0] : e \in PostErrs \ {"nil"} }
    \cup { [err |-> "nil", parses |-> FALSE, code |-> 0, expected |-> 0] }
    \cup { [err |-> "nil", parses |-> TRUE, code |-> c, expected |-> x] :
             c \in {0, 1}, x \in 0..MaxExpected }

\* the outcomes of a status poll: the call failed; code and the length of
\* data.record.result.cdn_url_list
PollResults ==
  { [err |-> e, code |-> 0, urls |-> 0] : e \in PostErrs \ {"nil"} }
    \cup { [err |-> "nil", code |-> c, urls |-> n] : c \in {0, 1}, n \in {0, 1} }

\* the handler returns the error appErr (goerr: the error of the monica
\* package): the error handler writes the response
Fail(goerr, appErr) ==
  /\ goErr' = goerr
  /\ resp' = ErrorHandler(appErr)
  /\ apc' = "done"

\* timeoutCtx.Done() is closed: the deadline of twice the expected time has
\* passed, or the parent context is cancelled
timeoutDone == clk >= 2 * expectedTime \/ aCancelled

\* POST /v1/chat/completions up to the call of the backend:
\* chatService.HandleChatCompletion validates and converts the request
ChatRequest(messages, converts) ==
  /\ apc = "idle"
  /\ akind' = "chat"
  /\ IF messages = 0 THEN Fail("none", NewEmptyMessageError)
     ELSE IF ~converts THEN Fail("none", NewInternalError)
     ELSE apc' = "send" /\ UNCHANGED << goErr, resp >>
  /\ UNCHANGED << acall, expectedTime, clk, polls, lastPoll, aCancelled >>
  /\ UNCHANGED << vars, rlvars, ovars, fvars, pvars >>

\* monica.SendMonicaRequest returns: an error of Post becomes
\* NewRequestFailedError, which HandleChatCompletion returns as it is
ChatSend(e) ==
  /\ apc = "send"
  /\ aCancelled => e # "nil"
  /\ acall' = e
  /\ IF e # "nil" THEN Fail("request failed", NewRequestFailedError)
     ELSE apc' = "translate" /\ goErr' = "nil" /\ UNCHANGED resp
  /\ UNCHANGED << akind, expectedTime, clk, polls, lastPoll, aCancelled >>
  /\ UNCHANGED << vars, rlvars, ovars, fvars, pvars >>

\* POST /v1/images/generations up to the submission:
\* imageService.GenerateImage rejects an empty prompt
ImageRequest(prompt) ==
  /\ apc = "idle"
  /\ akind' = "image"
  /\ IF prompt = "" THEN Fail("none", NewInvalidInputError)
     ELSE apc' = "submit" /\ UNCHANGED << goErr, resp >>
  /\ UNCHANGED << acall, expectedTime, clk, polls, lastPoll, aCancelled >>
  /\ UNCHANGED << vars, rlvars, ovars, fvars, pvars >>

\* monica.GenerateImage, steps 4 to 6: the submission returns r; every error
\* is wrapped by imageService.GenerateImage in NewImageGenerationError
ImageSubmit(r) ==
  /\ apc = "submit"
  /\ aCancelled => r.err # "nil"
  /\ acall' = r.err
  /\ IF r.err # "nil" THEN
       Fail("failed to send image generation request", NewImageGenerationError)
       /\ UNCHANGED expectedTime
     ELSE IF ~r.parses THEN
       Fail("failed to parse image generation response", NewImageGenerationError)
       /\ UNCHANGED expectedTime
     ELSE IF r.code # 0 THEN
       Fail("image generation failed", NewImageGenerationError)
       /\ UNCHANGED expectedTime
     ELSE
       /\ expectedTime' = r.expected
       /\ apc' = "select"
       /\ UNCHANGED << goErr, resp >>
  /\ UNCHANGED << akind, clk, polls, lastPoll, aCancelled >>
  /\ UNCHANGED << vars, rlvars, ovars, fvars, pvars >>

\* mutant: the loop polls without looking at timeoutCtx
PollSelectNoDeadline ==
  /\ apc = "select"
  /\ apc' = "poll"
  /\ polls' = polls + 1
  /\ UNCHANGED << goErr, resp >>
  /\ UNCHANGED << akind, acall, expectedTime, clk, lastPoll, aCancelled >>
  /\ UNCHANGED << vars, rlvars, ovars, fvars, pvars >>

\* the select of the poll loop: the timeout error if timeoutCtx is done,
\* else (default) the status poll is issued
PollSelect ==
  /\ apc = "select"
  /\ IF timeoutDone THEN
       Fail("timeout waiting for image generation", NewImageGenerationError)
       /\ UNCHANGED polls
     ELSE
       /\ apc' = "poll"
       /\ polls' = polls + 1
       /\ UNCHANGED << goErr, resp >>
  /\ UNCHANGED << akind, acall, expectedTime, clk, lastPoll, aCancelled >>
  /\ UNCHANGED << vars, rlvars, ovars, fvars, pvars >>

\* the status poll returns r: an error and a non-zero code end the loop with
\* an error, a non-empty list with the response; otherwise time.Sleep
PollReturn(r) ==
  /\ apc = "poll"
  /\ aCancelled => r.err # "nil"
  /\ acall' = r.err
  /\ lastPoll' = r
  /\ IF r.err # "nil" THEN
       Fail("failed to get image generation result", NewImageGenerationError)
     ELSE IF r.code # 0 THEN
       Fail("failed to get image result", NewImageGenerationError)
     ELSE IF r.urls > 0 THEN
       /\ goErr' = "nil"
       /\ resp' = [status |-> StatusOK, code |-> 0]
       /\ apc' = "done"
     ELSE
       /\ apc' = "sleep"
       /\ UNCHANGED << goErr, resp >>
  /\ UNCHANGED << akind, expectedTime, clk, polls, aCancelled >>
  /\ UNCHANGED << vars, rlvars, ovars, fvars, pvars >>

\* a second passes
Later == IF clk < MaxClock THEN clk + 1 ELSE clk

\* time.Sleep(time.Second) returns
SleepSecond ==
  /\ apc = "sleep"
  /\ clk' = Later
  /\ apc' = "select"
  /\ UNCHANGED << akind, acall, expectedTime, polls, lastPoll, goErr, resp, aCancelled >>
  /\ UNCHANGED << vars, rlvars, ovars, fvars, pvars >>

\* a second passes while the status poll is in flight
PollTakesTime ==
  /\ apc = "poll" /\ clk < MaxClock
  /\ clk' = Later
  /\ UNCHANGED << apc, akind, acall, expectedTime, polls, lastPoll, goErr, resp, aCancelled >>
  /\ UNCHANGED << vars, rlvars, ovars, fvars, pvars >>

\* the client goes away: c.Request().Context() is cancelled
ApiCancel ==
  /\ apc \in {"send", "submit", "select", "poll", "sleep"} /\ ~aCancelled
  /\ aCancelled' = TRUE
  /\ UNCHANGED << apc, akind, acall, expectedTime, clk, polls, lastPoll, goErr, resp >>
  /\ UNCHANGED << vars, rlvars, ovars, fvars, pvars >>

InitApi ==
  /\ StreamIdle /\ OrderIdle /\ ApiIdle /\ PoolIdle
  /\ RLInitWith([RateLimitEnabled |-> FALSE, RateLimitRPS |-> 0])

NextApi ==
  \/ \E messages \in {0, 1}, converts \in BOOLEAN : ChatRequest(messages, converts)
  \/ \E e \in PostErrs : ChatSend(e)
  \/ \E prompt \in {"", "a cat"} : ImageRequest(prompt)
  \/ \E r \in SubmitResults : ImageSubmit(r)
  \/ PollSelect
  \/ \E r \in PollResults : PollReturn(r)
  \/ SleepSecond
  \/ PollTakesTime
  \/ ApiCancel

SpecApi == InitApi /\ [][NextApi]_avars

\* Every call of the backend returns (the HTTP client has a timeout), the
\* sleep ends and the poll loop goes on to its next statement.
FairApi ==
  /\ WF_avars(PollSelect)
  /\ WF_avars(\E r \in PollResults : PollReturn(r))
  /\ WF_avars(SleepSecond)

SpecApiFair == InitApi /\ [][NextApi]_avars /\ FairApi

\* ------------------------------- the handler after the stream translation
\* createChatCompletionHandler has sent the status 200 and the headers
\* before it calls StreamMonicaSSEToClient; when that returns an error the
\* handler returns NewInternalError(err) and echo calls the error handler.

\* the body c.JSON writes for an error response
ErrorBody(r) == [kind |-> "error", status |-> r.status, code |-> r.code]

\* StreamMonicaSSEToClient has returned err.  nil: the handler returns nil.
\* Otherwise middleware.ErrorHandler calls c.JSON(status, response) without
\* looking at c.Response().Committed: the status line is already sent, so
\* WriteHeader has no effect, and the encoded body is written to the
\* response after the frames (unless the connection is gone)
HandlerReturn ==
  /\ mode = "stream" /\ pc = "done" /\ apc = "idle"
  /\ apc' = "done" /\ akind' = "chat"
  /\ goErr' = err
  /\ IF err # "nil" /\ sinkOk
       THEN /\ sink' = Append(sink, ErrorBody(ErrorHandler(NewInternalError)))
            /\ resp' = [status |-> StatusOK, code |-> NewInternalError.Code]
       ELSE /\ sink' = sink
            /\ resp' = [status |-> StatusOK, code |-> 0]
  /\ UNCHANGED << mode, pc, err, endedBy, ctxTied, sent, net, reqCancelled, rbuf,
                  lineNo, line, thinkFlag, frames, wbuf, werr, sinkOk, fullContent,
                  completion >>
  /\ UNCHANGED << acall, expectedTime, clk, polls, lastPoll, aCancelled >>
  /\ UNCHANGED << rlvars, ovars, fvars, pvars >>

NextResp ==
  \/ Start
  \/ \E l \in ExitLines : BackendSend(l)
  \/ CancelRequest
  \/ \E k \in 1..MaxNet : Fill(k)
  \/ \E t \in Tails : ReadEOF(t)
  \/ ReadCancelled
  \/ ReadError
  \/ \E fits1, fits2 \in BOOLEAN : ProcessLine(fits1, fits2)
  \/ HandlerReturn

SpecResp == InitBoth /\ [][NextResp]_<< vars, avars >>

\* ------------------------------------- requests served at the same time
\* Each request runs in its own goroutine (net/http).  What the requests
\* share: randSource (utils/string.go:11), a *rand.Rand made by rand.New,
\* which has no lock; sseDataPool and stringBuilderPool, sync.Pools, whose
\* Get and Put are atomic.  randSource.Intn is two steps, the read of the
\* generator's state and the write of the next state.

\* the payloads a request's stream is made of
PoolTokens == { "{text:a}", "{type:thinking}", "{finished:true}" }

\* sonic.Unmarshal(jsonStr, sseData) on the SSEData d as it is: the fields
\* present in the object are set, the others keep the value d has
UnmarshalInto(d, j) ==
  [f \in DOMAIN d |-> IF Decoded[j][f] # ZeroSSEData[f] THEN Decoded[j][f] ELSE d[f]]

\* what no step of the request h changes unless it says so
HKeep(h, keep) ==
  /\ ("hmode" \in keep => hmode' = hmode)
  /\ ("seed" \in keep => seed' = seed)
  /\ ("tmp" \in keep => tmp' = tmp)
  /\ ("hid" \in keep => hid' = hid)
  /\ ("pool" \in keep => pool' = pool /\ made' = made)
  /\ ("objData" \in keep => objData' = objData)
  /\ ("held" \in keep => held' = held)
  /\ ("sbpool" \in keep => sbpool' = sbpool /\ sbmade' = sbmade)
  /\ ("sbheld" \in keep => sbheld' = sbheld)
  /\ ("hcount" \in keep => hcount' = hcount)
  /\ ("hlast" \in keep => hlast' = hlast)
  /\ ("hseen" \in keep => hseen' = hseen)
  /\ ("herr" \in keep => herr' = herr)
  /\ UNCHANGED << vars, rlvars, ovars, fvars, avars >>

PoolFields ==
  { "hmode", "seed", "tmp", "hid", "pool", "objData", "held", "sbpool", "sbheld",
    "hcount", "hlast", "hseen", "herr" }

\* a request arrives.  StreamMonicaSSEToClient draws its ids first
\* (image_service.go:352-354); CollectMonicaSSEToCompletion gets its builder
\* first (292)
StartRequest(h, m) ==
  /\ hpc[h] = "idle"
  /\ hmode' = [hmode EXCEPT ![h] = m]
  /\ hpc' = [hpc EXCEPT ![h] = IF m = "stream" THEN "load" ELSE "cget"]
  /\ HKeep(h, PoolFields \ {"hmode"})

\* stringBuilderPool.Get(): a builder put back, or a new one
BuilderGet(h, i, next) ==
  /\ IF i = 0
       THEN /\ sbmade < MaxObjs
            /\ sbmade' = sbmade + 1 /\ sbpool' = sbpool
            /\ sbheld' = [sbheld EXCEPT ![h] = sbmade + 1]
       ELSE /\ i \in 1..Len(sbpool)
            /\ sbmade' = sbmade /\ sbpool' = RemoveAt(sbpool, i)
            /\ sbheld' = [sbheld EXCEPT ![h] = sbpool[i]]
  /\ hpc' = [hpc EXCEPT ![h] = next]

\* sb.Reset(); stringBuilderPool.Put(sb)
BuilderPut(h) ==
  /\ sbpool' = Append(sbpool, sbheld[h])
  /\ sbmade' = sbmade
  /\ sbheld' = [sbheld EXCEPT ![h] = 0]

\* CollectMonicaSSEToCompletion: fullContentBuilder := stringBuilderPool.Get()
CollectGet(h, i) ==
  /\ hpc[h] = "cget"
  /\ BuilderGet(h, i, "get")
  /\ HKeep(h, PoolFields \ {"sbpool", "sbheld"})

\* randSource.Intn: the state of the generator is read
RandLoad(h) ==
  /\ hpc[h] = "load"
  /\ tmp' = [tmp EXCEPT ![h] = seed]
  /\ hpc' = [hpc EXCEPT ![h] = "store"]
  /\ HKeep(h, PoolFields \ {"tmp"})

\* randSource.Intn: the next state is written and the value returned; after
\* the last rune the stream goes on to read its backend, the Collector to
\* its response and its deferred Put
RandStore(h) ==
  /\ hpc[h] = "store"
  /\ seed' = (tmp[h] + 1) % RandMod
  /\ hid' = [hid EXCEPT ![h] = Append(@, tmp[h])]
  /\ hpc' = [hpc EXCEPT ![h] =
               IF Len(hid[h]) + 1 < IdLen THEN "load"
               ELSE IF hmode[h] = "stream" THEN "get" ELSE "cput"]
  /\ HKeep(h, PoolFields \ {"seed", "hid"})

\* sseDataPool.Get(): an object put back, as it was put, or a new one
PoolGet(h, i) ==
  /\ hpc[h] = "get"
  /\ IF i = 0
       THEN /\ made < MaxObjs
            /\ made' = made + 1 /\ pool' = pool
            /\ held' = [held EXCEPT ![h] = made + 1]
       ELSE /\ i \in 1..Len(pool)
            /\ made' = made /\ pool' = RemoveAt(pool, i)
            /\ held' = [held EXCEPT ![h] = pool[i]]
  /\ hpc' = [hpc EXCEPT ![h] = "decode"]
  /\ HKeep(h, PoolFields \ {"pool", "held"})

\* mutant: the object is put back where the payload does not decode, and the
\* loop goes on to the Put at its end
DecodePutsTwice(h, j) ==
  /\ hpc[h] = "decode"
  /\ hcount' = [hcount EXCEPT ![h] = @ + 1]
  /\ hlast' = [hlast EXCEPT ![h] = j]
  /\ IF j \in PoolTokens
       THEN /\ objData' = [objData EXCEPT ![held[h]] = UnmarshalInto(@, j)]
            /\ hpc' = [hpc EXCEPT ![h] = "handle"]
            /\ herr' = herr /\ pool' = pool /\ made' = made
       ELSE /\ objData' = objData
            /\ hpc' = [hpc EXCEPT ![h] = "put"]
            /\ herr' = [herr EXCEPT ![h] = "unmarshal error"]
            /\ pool' = Append(pool, held[h]) /\ made' = made
  /\ HKeep(h, PoolFields \ {"hcount", "hlast", "objData", "herr", "pool"})

\* sonic.Unmarshal(jsonStr, sseData) on the object held; an error goes to the
\* reset and Put of image_service.go:268-270
Decode(h, j) ==
  /\ hpc[h] = "decode"
  /\ hcount' = [hcount EXCEPT ![h] = @ + 1]
  /\ hlast' = [hlast EXCEPT ![h] = j]
  /\ IF j \in PoolTokens
       THEN /\ objData' = [objData EXCEPT ![held[h]] = UnmarshalInto(@, j)]
            /\ hpc' = [hpc EXCEPT ![h] = "handle"]
            /\ herr' = herr
       ELSE /\ objData' = objData
            /\ hpc' = [hpc EXCEPT ![h] = "put"]
            /\ herr' = [herr EXCEPT ![h] = "unmarshal error"]
  /\ HKeep(h, PoolFields \ {"hcount", "hlast", "objData", "herr"})

\* handler(sseData) of the stream up to sb := stringBuilderPool.Get(): the
\* frame is built of the event (sseMsg is a value, it keeps no reference)
StreamHandle(h, i) ==
  /\ hpc[h] = "handle" /\ hmode[h] = "stream"
  /\ hseen' = [hseen EXCEPT ![h] = objData[held[h]]]
  /\ BuilderGet(h, i, "write")
  /\ HKeep(h, PoolFields \ {"sbpool", "sbheld", "hseen"})

\* the rest of the stream's handler: writer.WriteString(sb.String()) copies
\* the frame, the builder is reset and put back on both paths (475-483), and
\* the handler clears the event's agent status and finished flag (497-498)
StreamWrite(h, ok) ==
  /\ hpc[h] = "write"
  /\ BuilderPut(h)
  /\ herr' = [herr EXCEPT ![h] = IF ok THEN "nil" ELSE "write error"]
  /\ objData' = [objData EXCEPT ![held[h]] =
                   IF ok /\ ~@.Finished THEN [@ EXCEPT !.Type = "", !.Finished = FALSE] ELSE @]
  /\ hpc' = [hpc EXCEPT ![h] = "put"]
  /\ HKeep(h, PoolFields \ {"sbpool", "sbheld", "herr", "objData"})

\* handler(sseData) of the Collector: the text is copied into the builder
CollectHandle(h) ==
  /\ hpc[h] = "handle" /\ hmode[h] = "collect"
  /\ hseen' = [hseen EXCEPT ![h] = objData[held[h]]]
  /\ hpc' = [hpc EXCEPT ![h] = "put"]
  /\ HKeep(h, PoolFields \ {"hseen"})

\* where processSSEStream goes after the Put: the next line, or its return
\* (an error, or the end of the backend's stream)
AfterPut(h) ==
  IF herr[h] = "nil" /\ hcount[h] < EventsPerReq THEN "get"
  ELSE IF hmode[h] = "stream" THEN "done"
  ELSE IF herr[h] = "nil" THEN "load"
  ELSE "cput"

\* mutant: the object is put back as the handler left it
PoolPutNoReset(h) ==
  /\ hpc[h] = "put"
  /\ objData' = objData
  /\ pool' = Append(pool, held[h]) /\ made' = made
  /\ held' = [held EXCEPT ![h] = 0]
  /\ hpc' = [hpc EXCEPT ![h] = AfterPut(h)]
  /\ HKeep(h, PoolFields \ {"objData", "pool", "held"})

\* *sseData = SSEData{}; sseDataPool.Put(sseData): on the decode error
\* (268-269), the handler's error (276-277) and after the handler (282-283)
PoolPut(h) ==
  /\ hpc[h] = "put"
  /\ objData' = [objData EXCEPT ![held[h]] = ZeroSSEData]
  /\ pool' = Append(pool, held[h]) /\ made' = made
  /\ held' = [held EXCEPT ![h] = 0]
  /\ hpc' = [hpc EXCEPT ![h] = AfterPut(h)]
  /\ HKeep(h, PoolFields \ {"objData", "pool", "held"})

\* the Collector's deferred fullContentBuilder.Reset(); Put (293-296)
CollectPut(h) ==
  /\ hpc[h] = "cput"
  /\ BuilderPut(h)
  /\ hpc' = [hpc EXCEPT ![h] = "done"]
  /\ HKeep(h, PoolFields \ {"sbpool", "sbheld"})

InitPool ==
  /\ StreamIdle /\ OrderIdle /\ ApiIdle /\ PoolIdle
  /\ RLInitWith([RateLimitEnabled |-> FALSE, RateLimitRPS |-> 0])

NextPool ==
  \/ \E h \in 1..NumCallers, m \in {"stream", "collect"} : StartRequest(h, m)
  \/ \E h \in 1..NumCallers, i \in 0..MaxObjs : CollectGet(h, i)
  \/ \E h \in 1..NumCallers : RandLoad(h)
  \/ \E h \in 1..NumCallers : RandStore(h)
  \/ \E h \in 1..NumCallers, i \in 0..MaxObjs : PoolGet(h, i)
  \/ \E h \in 1..NumCallers, j \in PoolTokens \cup {BadToken} : Decode(h, j)
  \/ \E h \in 1..NumCallers, i \in 0..MaxObjs : StreamHandle(h, i)
  \/ \E h \in 1..NumCallers, ok \in BOOLEAN : StreamWrite(h, ok)
  \/ \E h \in 1..NumCallers : CollectHandle(h)
  \/ \E h \in 1..NumCallers : PoolPut(h)
  \/ \E h \in 1..NumCallers : CollectPut(h)

SpecPool == InitPool /\ [][NextPool]_pvars

\* ------------------------------------------------- reading the properties
\* the lines ReadBytes has returned so far
Consumed == SubSeq(sent, 1, lineNo)

IsJsonLine(l) == Len(l) = 3 /\ l[1] = dataPrefix /\ l[2] \in JsonTokens /\ l[3] = NL

IsDoneLine(l) == l = <<dataPrefix, sseFinish, NL>>

\* a data line whose payload is neither empty nor the sentinel nor a JSON object
IsBadLine(l) ==
  /\ Len(l) >= 3 /\ l[1] = dataPrefix /\ l[Len(l)] = NL
  /\ ~IsJsonLine(l) /\ ~IsDoneLine(l)

EventOf(l) == Unmarshal(PayloadOf(l)).data

\* the translation rule of section 4.2 that applies to an event
RuleOf(e) ==
  IF e.Finished THEN "finished"
  ELSE IF e.Type = "thinking" THEN "thinking"
  ELSE IF e.Type = "thinking_detail_stream" THEN "detail"
  ELSE "ordinary"

\* the indices of the JSON lines among the first n lines sent
JsonIdx(n) == { k \in 1..n : IsJsonLine(sent[k]) }

\* the lines whose handling is complete: all consumed lines, but for the one
\* whose frame the writer refused
Handled == IF err = "write error" THEN lineNo - 1 ELSE lineNo

\* the chunk frames and the raw ([DONE]) frames among the frames written
ChunkIdx == { i \in 1..Len(frames) : frames[i].kind = "chunk" }

RawIdx == { i \in 1..Len(frames) : frames[i].kind = "raw" }

TerminalIdx == { i \in ChunkIdx : frames[i].finish = "stop" }

\* a frame's content without the injected closing marker
StripClose(c) == IF c # <<>> /\ c[1] = thinkClose THEN Tail(c) ELSE c

HasClose(c) == c # <<>> /\ c[1] = thinkClose

\* the concatenation, in order, of the texts of the events without agent status
RECURSIVE PlainText(_)
PlainText(ls) ==
  IF ls = <<>> THEN <<>>
  ELSE LET l == ls[Len(ls)]
           init == PlainText(SubSeq(ls, 1, Len(ls) - 1))
       IN IF IsJsonLine(l) /\ EventOf(l).Type = "" THEN init \o EventOf(l).Text ELSE init

\* the event that produced frame i
FrameEvent(i) == EventOf(sent[frames[i].src])

\* ------------------------------------------------------------- properties
\* A well-formed backend stream that ended with the data: [DONE] line has been
\* translated to its end: every line before the sentinel is a data line with
\* a JSON object, one of them declares completion (finished), and neither
\* the backend nor the client failed.
WellFormedToSentinel ==
  /\ pc = "done" /\ endedBy = "sentinel" /\ ~reqCancelled
  /\ \A k \in 1..(lineNo - 1) : IsJsonLine(sent[k])
  /\ \E k \in 1..(lineNo - 1) : EventOf(sent[k]).Finished

\* C1 (as claimed): for a well-formed backend stream that ends with the
\* data: [DONE] line, StreamMonicaSSEToClient has written exactly one terminal
\* frame (finish_reason "stop"), then exactly one data: [DONE] frame, and no
\* frame after that.
C1_OneTerminalThenDone ==
  (mode = "stream" /\ WellFormedToSentinel) =>
    /\ Cardinality(TerminalIdx) = 1
    /\ Cardinality(RawIdx) = 1
    /\ Len(frames) >= 2
    /\ frames[Len(frames)].kind = "raw"
    /\ frames[Len(frames) - 1].finish = "stop"

\* C2: when the Collector has read a stream up to the terminal sentinel, the
\* message content it returns is the concatenation, in arrival order, of the
\* text of every event whose agent_status type is empty; events with an agent
\* status contribute nothing.
C2_CollectorContent ==
  (mode = "collect" /\ pc = "done" /\ endedBy = "sentinel") =>
    /\ err = "nil"
    /\ Len(completion) = 1
    /\ completion[1].Content = PlainText(Consumed)

\* C2 witness: a returned completion for a stream with a text event and an
\* agent-status event before the sentinel
C2_Witness ==
  /\ mode = "collect" /\ pc = "done" /\ endedBy = "sentinel"
  /\ Len(completion) = 1 /\ completion[1].Content # <<>>
  /\ \E k \in JsonIdx(lineNo) : EventOf(sent[k]).Type # ""

\* a thinking frame precedes frame i with no ordinary-text frame in between
OpenBefore(i) ==
  \E j \in 1..(i - 1) :
    /\ frames[j].kind = "chunk" /\ RuleOf(FrameEvent(j)) = "thinking"
    /\ \A k \in (j + 1)..(i - 1) :
         ~(frames[k].kind = "chunk" /\ RuleOf(FrameEvent(k)) = "ordinary")

\* C3: reasoning-block invariant of the Stream Emitter.  The opening marker
\* is the content of the frame of every "thinking" event and of no other
\* frame; the closing marker is emitted only as the prefix of an
\* ordinary-text frame, namely of the first ordinary-text frame that follows
\* a thinking frame, and of no later one until the next thinking frame.
C3_ReasoningBlock ==
  mode = "stream" =>
    \A i \in ChunkIdx :
      LET c == frames[i].content
          rule == RuleOf(FrameEvent(i))
      IN /\ (c = <<thinkOpen>>) <=> (rule = "thinking")
         /\ \A n \in 1..Len(c) : c[n] = thinkOpen => Len(c) = 1
         /\ \A n \in 1..Len(c) : c[n] = thinkClose => (n = 1 /\ rule = "ordinary")
         /\ rule = "ordinary" => (HasClose(c) <=> OpenBefore(i))
         /\ rule = "ordinary" => StripClose(c) = FrameEvent(i).Text

\* C3 witness: a thinking frame, then an ordinary-text frame that carries the
\* closing marker, then an ordinary-text frame that does not
C3_Witness ==
  /\ mode = "stream"
  /\ \E i, j, k \in ChunkIdx :
       /\ i < j /\ j < k
       /\ frames[i].content = <<thinkOpen>>
       /\ HasClose(frames[j].content)
       /\ RuleOf(FrameEvent(k)) = "ordinary" /\ ~HasClose(frames[k].content)

\* what the frame of an event carries besides the closing marker
BodyOf(e) ==
  CASE RuleOf(e) = "finished" -> <<>>
    [] RuleOf(e) = "thinking" -> <<thinkOpen>>
    [] RuleOf(e) = "detail" -> e.ReasoningDetail
    [] RuleOf(e) = "ordinary" -> e.Text

\* C4: within one streaming translation the frames are written in the order
\* of the backend events that produced them, and each decoded event has
\* yielded its frame before the next backend line is read: the chunk frames
\* are, in order, the frames of the JSON lines consumed so far, and a raw
\* [DONE] frame directly follows the terminal frame of the same event.
C4_FramesInEventOrder ==
  mode = "stream" =>
    /\ \A i \in ChunkIdx :
         /\ frames[i].src \in JsonIdx(Handled)
         /\ StripClose(frames[i].content) = BodyOf(FrameEvent(i))
         /\ (frames[i].finish = "stop") <=> FrameEvent(i).Finished
    /\ \A i, j \in ChunkIdx : i < j => frames[i].src < frames[j].src
    /\ \A k \in JsonIdx(Handled) : \E i \in ChunkIdx : frames[i].src = k
    /\ \A i \in RawIdx :
         i > 1 /\ frames[i - 1].finish = "stop" /\ frames[i - 1].src = frames[i].src

\* C4 witness: the parser is about to read the next line after three events,
\* each of which has its frame
C4_Witness ==
  /\ mode = "stream" /\ pc = "read"
  /\ Cardinality(JsonIdx(lineNo)) = 3
  /\ Cardinality(ChunkIdx) = 3
  /\ \E i, j \in ChunkIdx : frames[i].content # frames[j].content

\* the text fragments the backend sends
TextTokens == {"a", "b", "c"}

\* how often the fragment x occurs in a string
Occurrences(x, str) == Cardinality({ n \in 1..Len(str) : str[n] = x })

\* the events with text x among the first n lines that each path treats as
\* text: the Emitter those of the default case, the Collector those without
\* agent status
StreamTextEvents(x, n) ==
  { k \in JsonIdx(n) : RuleOf(EventOf(sent[k])) = "ordinary" /\ EventOf(sent[k]).Text = <<x>> }

CollectTextEvents(x, n) ==
  { k \in JsonIdx(n) : EventOf(sent[k]).Type = "" /\ EventOf(sent[k]).Text = <<x>> }

C7_NoPartialCompletion ==
  (/\ mode = "collect" /\ pc = "done"
   /\ endedBy \in {"read error", "read cancelled"}
   /\ PlainText(sent) # PlainText(Consumed))
    => completion = <<>>

\* C8 (as claimed): once the Stream Emitter has handled an event with
\* finished=true, no backend line that follows the finished event is
\* translated or produces any output.
C8_NothingAfterFinished ==
  mode = "stream" =>
    \A i \in TerminalIdx : \A j \in 1..Len(frames) : frames[j].src <= frames[i].src

C10_NoFramesAfterCancel ==
  [][reqCancelled => frames' = frames]_vars

\* the [DONE] frames that have reached the client sink
SinkDone == { i \in 1..Len(sink) : sink[i].kind = "raw" }

\* C11 (as claimed): when streaming translation has aborted with a decode
\* error, a read error or a write error after frames were sent, the client
\* has received no data: [DONE] frame for that response.
C11_NoDoneAfterAbort ==
  (/\ mode = "stream" /\ pc = "done"
   /\ err \in {"unmarshal error", "read error", "write error"}
   /\ sink # <<>>)
    => SinkDone = {}

\* C12 (as claimed): whenever a write to the client sink has failed during a
\* streaming translation (the buffered writer holds the error of a frame
\* write or of a flush), StreamMonicaSSEToClient has returned a write error.
C12_WriteErrorReturned ==
  (mode = "stream" /\ pc = "done" /\ werr) => err = "write error"

\* --------------------------------------------- rate limiter: properties

\* the requests that found their key absent at the first lookup and have
\* received a limiter from GetLimiter
FirstTimers == { p \in Callers : cpc[p] = "allow" /\ cmiss[p].made >= 0 }

\* C13 as stated: every first-time caller of a key receives the one limiter
\* made after it found the key absent, so that concurrent first-time callers
\* (the ones that found the key absent at the same count of limiters made)
\* create exactly one instance and all receive it
C13_OneInstance ==
  \A p \in FirstTimers : climiter[p] = cmiss[p].made + 1

\* C13, amended: the same for every first-time caller during whose call the
\* sweep did not remove the key's entry
C13_OneInstanceUnlessSwept ==
  \A p \in FirstTimers : ~cmiss[p].swept => climiter[p] = cmiss[p].made + 1

\* C13 witness: two first-time callers of one key, both having found it absent
\* before any limiter was made for it, hold the same instance
C13_Witness ==
  \E p, q \in FirstTimers :
    /\ p # q /\ ckey[p] = ckey[q]
    /\ cmiss[p].made = 0 /\ cmiss[q].made = 0
    /\ climiter[p] = 1 /\ climiter[q] = 1

\* the entry of key k was last looked up more than threshold minutes ago
Stale(k) == \E e \in EntriesOf(k) : now - e.lastSeen.ext > threshold

\* a step of GetLimiter that inserts an entry for key k: the limiter is one
\* that did not exist before, and its bucket holds the burst
CreatesFresh(k) ==
  (EntriesOf(k) = {} /\ EntriesOf(k)' # {}) =>
    \A e \in EntriesOf(k)' :
      /\ e.limiter \notin DOMAIN tokens[k]
      /\ e.limiter \in DOMAIN tokens'[k]
      /\ tokens'[k][e.limiter] = burst

\* C14: an entry not looked up for longer than the threshold is removed by
\* the sweep in the end (unless it is looked up again), and whenever a key
\* that has no entry gets one, the limiter is a new instance with the full
\* burst
C14_SweptThenFresh ==
  /\ \A k \in Keys : Stale(k) ~> ~Stale(k)
  /\ [][\A k \in Keys : CreatesFresh(k)]_rlvars

\* C14 witness: a key's entry was removed and the key has its second limiter,
\* with the full burst of one token
C14_Witness ==
  \E e \in clients : e.limiter = 2 /\ burst = 1 /\ tokens[e.key][2] = burst

\* the time.Now() of the GetLimiter call of request p: read under the read
\* lock when the entry was found, under the write lock otherwise
CallTime(p) == IF cpc[p] = "refresh" THEN ct[p] ELSE now

\* C15: the registry holds at most one entry per key, and the step in which
\* a GetLimiter call returns leaves the lastSeen of its key equal to the time
\* of that call
C15_LastSeenIsCallTime ==
  [][/\ \A k \in Keys : Cardinality(EntriesOf(k)') <= 1
     /\ \A p \in Callers :
          (cpc[p] \in {"refresh", "check"} /\ cpc'[p] = "allow") =>
            \E e \in EntriesOf(ckey[p])' :
              e.lastSeen = [wall |-> CallTime(p), ext |-> CallTime(p)]]_rlvars

\* the requests that are reading the map, storing a lastSeen or inserting an
\* entry in GetLimiter
InRegistry == { p \in Callers : cpc[p] \in {"lookup", "refresh", "check"} }

\* C16: while cleanupInactiveClients examines and deletes entries, no
\* GetLimiter call reads the map, refreshes a lastSeen or inserts an entry
C16_SweepExcludesGetLimiter ==
  sweeper = "range" => (InRegistry = {} /\ readers = {} /\ writer = "sweeper")

\* C16 witness: the sweep is in its loop over a registry that has entries
\* while two requests wait, one at RLock() and one at Lock()
C16_Witness ==
  /\ sweeper = "range" /\ clients # {}
  /\ \E p, q \in Callers : cpc[p] = "rlock" /\ cpc[q] = "lock"

\* rate limiting is disabled by the configuration: switched off, or given a
\* non-positive RPS
Disabled == ~cfg.RateLimitEnabled \/ cfg.RateLimitRPS <= 0

\* C17: with rate limiting disabled there is never a limiter, a registry
\* entry, a bucket or a sweep goroutine, and every request is at next(c) or
\* outside the middleware
C17_DisabledBypasses ==
  Disabled =>
    /\ ~limiterOn /\ sweeper = "off" /\ clients = {}
    /\ \A k \in Keys : tokens[k] = <<>>
    /\ \A p \in Callers : cpc[p] \in {"idle", "next"}

\* C17 witness: the middleware is installed with rate limiting disabled and
\* all the requests have been passed to next(c)
C17_Witness ==
  /\ boot = "serving" /\ Disabled
  /\ \A p \in Callers : cpc[p] = "next"

\* ------------------------------------------------ both paths, one stream
\* the concatenation of the texts of the events of the lines ls
RECURSIVE TextsOf(_)
TextsOf(ls) ==
  IF ls = <<>> THEN <<>>
  ELSE TextsOf(SubSeq(ls, 1, Len(ls) - 1)) \o EventOf(ls[Len(ls)]).Text

\* the concatenation of the contents of the chunk frames fs
RECURSIVE FrameText(_)
FrameText(fs) ==
  IF fs = <<>> THEN <<>>
  ELSE FrameText(SubSeq(fs, 1, Len(fs) - 1))
         \o (IF fs[Len(fs)].kind = "chunk" THEN fs[Len(fs)].content ELSE <<>>)

\* the number of text events of the stream sent
NumTexts == Len(sent) - 2

\* a stream of text events, a finished event and the sentinel was sent and
\* has been read to its end
TextStreamRead ==
  /\ pc = "done" /\ endedBy = "sentinel" /\ lineNo = Len(sent)
  /\ Len(sent) >= 2
  /\ \A k \in 1..NumTexts : sent[k] \in TextLines
  /\ sent[Len(sent) - 1] \in FinishedLines
  /\ sent[Len(sent)] = DoneLine

\* what the two paths have made of it: the Emitter one content frame for each
\* text event, with its text, in order, then the terminal frame, then the
\* [DONE] frame, all of them at the client; the Collector the concatenation of
\* the contents of those frames
BothPathsAgree ==
  /\ err = "nil"
  /\ mode = "stream" =>
       /\ Len(frames) = Len(sent)
       /\ \A i \in 1..NumTexts :
            /\ frames[i].kind = "chunk" /\ frames[i].finish = "null"
            /\ frames[i].content = EventOf(sent[i]).Text
       /\ frames[NumTexts + 1].kind = "chunk"
       /\ frames[NumTexts + 1].finish = "stop"
       /\ frames[NumTexts + 2] = DoneFrame(NumTexts + 1)
       /\ sink = frames
       /\ FrameText(frames) = TextsOf(SubSeq(sent, 1, NumTexts))
  /\ mode = "collect" =>
       /\ Len(completion) = 1
       /\ completion[1].Content = TextsOf(SubSeq(sent, 1, NumTexts))

Collected == how # NoChange /\ idx = Len(evs)

\* C19 as stated: moving an agent-status event never changes the Collector's
\* output, and swapping two ordinary-text events changes it
C19_OrderSensitive ==
  Collected =>
    /\ how.kind = "move" => outB = outA
    /\ how.kind = "swap" => outB # outA

\* C19, amended: moving an agent-status event never changes the output, and
\* swapping two ordinary-text events whose texts differ and have the same
\* length changes it
C19_OrderSensitiveDistinctTexts ==
  Collected =>
    /\ how.kind = "move" => outB = outA
    /\ (/\ how.kind = "swap"
        /\ evs[how.i].Text # evs[how.j].Text
        /\ Len(evs[how.i].Text) = Len(evs[how.j].Text)) => outB # outA

\* C19 witness: two different texts of one character were swapped around an
\* agent-status event that has text, and the outputs differ
C19_Witness ==
  /\ Collected /\ how.kind = "swap" /\ how.i = 1 /\ how.j = 3
  /\ evs[1].Text = <<"a">> /\ evs[3].Text = <<"b">>
  /\ evs[2].Type = "other"
  /\ outA = <<"a", "b">> /\ outB = <<"b", "a">>

\* ------------------------------------------------------- finish_reason
\* C20: every JSON frame the Emitter has written for an event that is not
\* finished has finish_reason null, and every frame written for a finished
\* event has empty content and finish_reason "stop", whatever text or agent
\* status that event carries
C20_FinishReason ==
  mode = "stream" =>
    \A i \in ChunkIdx :
      IF FrameEvent(i).Finished
        THEN frames[i].content = <<>> /\ frames[i].finish = "stop"
        ELSE frames[i].finish = "null"

\* C20 witness: a content frame, and after it the terminal frame of a finished
\* event that carries text and an agent status
C20_Witness ==
  /\ mode = "stream"
  /\ \E i, j \in ChunkIdx :
       /\ i < j
       /\ ~FrameEvent(i).Finished /\ frames[i].content # <<>>
       /\ FrameEvent(j).Finished
       /\ FrameEvent(j).Text # <<>> /\ FrameEvent(j).Type # ""
       /\ frames[j].content = <<>>

\* ------------------------------------------------- the session's identity
\* C21 (as claimed): every JSON frame the Emitter has written, the terminal
\* frame included, carries the stream id, the created timestamp, the system
\* fingerprint and the model that were fixed before the loop.
C21_SessionFields ==
  mode = "stream" =>
    \A i \in ChunkIdx :
      /\ frames[i].id = chatId
      /\ frames[i].created = nowUnix
      /\ frames[i].fp = fingerprint
      /\ frames[i].model = model

\* ------------------------------------------------- the flush on the ticker
\* C22 (as claimed, for a client that stays connected): when
\* StreamMonicaSSEToClient has returned, on whatever exit path, every frame it
\* wrote has been flushed to the client sink and none remains buffered.
C22_AllFramesFlushed ==
  (mode = "stream" /\ pc = "done" /\ ~reqCancelled) =>
    /\ wbuf = <<>>
    /\ \A i \in 1..Len(frames) : \E j \in 1..Len(sink) : sink[j] = frames[i]

\* C30 (as claimed): once StreamMonicaSSEToClient has returned, the goroutine
\* takes no further step of a flush, neither of the buffered writer
\* (writer.Flush()) nor of the client sink (f.Flush()): it only exits.
C30_NoFlushAfterReturn ==
  [][pc = "done" => (ftask' = ftask \/ ftask' = "exited")]_<< vars, fvars >>

\* ------------------------------------------------ the errors of a request
\* C23 (as claimed): a request that ended because a call of the backend
\* failed (a network error, or a response that is not 2xx), on the chat path
\* or on the image path, is answered with status 502.
C23_UpstreamFailureIs502 ==
  (apc = "done" /\ acall \in {"network", "status"}) => resp.status = StatusBadGateway

\* the code of the response to an image request that failed for a reason
\* other than the deadline: the backend refused the job
GenericImageFailureCode == ErrorHandler(NewImageGenerationError).code

\* C24 (as claimed): the response to an image request whose polling exceeded
\* its deadline carries an error code other than that of a generic
\* image-generation failure.
C24_TimeoutDistinct ==
  (apc = "done" /\ goErr = "timeout waiting for image generation") =>
    resp.code # GenericImageFailureCode

\* the poll loop of monica.GenerateImage is running
InPollLoop == apc \in {"select", "poll", "sleep"}

\* the last status poll succeeded with a non-empty result list
PollReady(r) == r.err = "nil" /\ r.code = 0 /\ r.urls > 0

\* the last status poll failed: an error of the call or a non-zero code
PollFailed(r) == r.err \notin {"nil", "none"} \/ (r.err = "nil" /\ r.code # 0)

\* one step of the loop decides as the claim says: the select ends the loop
\* with the timeout error once twice the expected time has passed and issues
\* a poll only before that; the return of a poll ends the loop with the
\* response if the list is not empty, with an error if the poll failed, and
\* goes to sleep otherwise; once the response is written nothing changes
PollStep ==
  /\ (apc = "select" /\ apc' # "select") =>
       /\ clk >= 2 * expectedTime =>
            (apc' = "done" /\ resp'.status # StatusOK /\ polls' = polls)
       /\ apc' = "poll" => (clk < 2 * expectedTime /\ polls' = polls + 1)
  /\ (apc = "poll" /\ apc' # "poll") =>
       /\ PollReady(lastPoll') => (apc' = "done" /\ resp'.status = StatusOK)
       /\ PollFailed(lastPoll') => (apc' = "done" /\ resp'.status # StatusOK)
       /\ apc' = "done" => (PollReady(lastPoll') \/ PollFailed(lastPoll'))
       /\ polls' = polls
  /\ apc = "done" => (polls' = polls /\ resp' = resp /\ apc' = "done")

\* C25: once the job is submitted the poll loop ends, with one outcome:
\* the response as soon as a status poll returns a non-empty list (the first
\* poll included), an error when a poll fails or returns a non-zero code or
\* when twice the expected time has passed; no poll is issued afterwards.
C25_PollLoopEnds ==
  /\ InPollLoop ~> (apc = "done")
  /\ [][PollStep]_avars

\* C25 witness: the job was submitted with an expected time of two seconds,
\* the first poll found nothing and the second poll returned the images
C25_Witness ==
  /\ akind = "image" /\ apc = "done" /\ expectedTime = 2
  /\ polls = 2 /\ PollReady(lastPoll) /\ resp.status = StatusOK

\* ------------------------------------------------ the rules of the Emitter
\* the step is the handling of one decoded event by the Emitter
HandlesEvent == mode = "stream" /\ lineNo' = lineNo + 1 /\ IsJsonLine(line')

\* C26 as stated: thinkFlag changes only when an event is handled; it becomes
\* true only on a "thinking" event and false only on an event without agent
\* status; finished events, "thinking_detail_stream" events and events with
\* any other agent status leave it unchanged
C26_FlagTransitions ==
  [][/\ thinkFlag' # thinkFlag => HandlesEvent
     /\ HandlesEvent =>
          /\ (~thinkFlag /\ thinkFlag') => RuleOf(EventOf(line')) = "thinking"
          /\ (thinkFlag /\ ~thinkFlag') =>
               (RuleOf(EventOf(line')) = "ordinary" /\ EventOf(line').Type = "")
          /\ (\/ EventOf(line').Finished
              \/ EventOf(line').Type \notin {"", "thinking"}) => thinkFlag' = thinkFlag]_vars

\* C26, amended: thinkFlag becomes false only on an event of the default rule
\* (not finished, agent status neither "thinking" nor "thinking_detail_stream",
\* be it empty or of another kind); finished events and
\* "thinking_detail_stream" events leave it unchanged
C26_FlagTransitionsDefaultRule ==
  [][/\ thinkFlag' # thinkFlag => HandlesEvent
     /\ HandlesEvent =>
          /\ (~thinkFlag /\ thinkFlag') => RuleOf(EventOf(line')) = "thinking"
          /\ (thinkFlag /\ ~thinkFlag') => RuleOf(EventOf(line')) = "ordinary"
          /\ RuleOf(EventOf(line')) \in {"finished", "detail"} => thinkFlag' = thinkFlag]_vars

\* C26 witness: a "thinking" event set the flag, a "thinking_detail_stream"
\* event left it set and an event with another agent status reset it
C26_Witness ==
  /\ mode = "stream" /\ lineNo = 3 /\ ~thinkFlag /\ Len(frames) = 3
  /\ RuleOf(EventOf(sent[1])) = "thinking"
  /\ RuleOf(EventOf(sent[2])) = "detail"
  /\ EventOf(sent[3]).Type = "other"
  /\ HasClose(frames[3].content)

\* the frames written in this step
NewFrames == SubSeq(frames', Len(frames) + 1, Len(frames'))

\* the tokens of a string
TokensOf(str) == { str[n] : n \in 1..Len(str) }

\* C27: the handling of an event applies exactly one rule, the first of
\* finished, "thinking", "thinking_detail_stream", ordinary that fits: it
\* writes one JSON frame, that of the rule (none only if the write fails);
\* a finished event, whatever agent status or text it carries, gets the
\* terminal frame alone (followed by the [DONE] frame), leaves thinkFlag as
\* it is, and no marker and none of its text is written.
C27_OneRuleByPrecedence ==
  [][HandlesEvent =>
       /\ SubSeq(frames', 1, Len(frames)) = frames
       /\ Cardinality({ n \in 1..Len(NewFrames) : NewFrames[n].kind = "chunk" })
            = IF err' = "write error" THEN 0 ELSE 1
       /\ \A n \in 1..Len(NewFrames) :
            NewFrames[n].kind = "chunk" =>
              /\ n = 1
              /\ StripClose(NewFrames[n].content) = BodyOf(EventOf(line'))
              /\ (NewFrames[n].finish = "stop") <=> (RuleOf(EventOf(line')) = "finished")
              /\ HasClose(NewFrames[n].content) =>
                   (RuleOf(EventOf(line')) = "ordinary" /\ thinkFlag)
       /\ RuleOf(EventOf(line')) = "thinking" => thinkFlag'
       /\ EventOf(line').Finished =>
            /\ thinkFlag' = thinkFlag
            /\ \A n \in 1..Len(NewFrames) :
                 TokensOf(NewFrames[n].content)
                   \cap ({thinkOpen, thinkClose} \cup TokensOf(EventOf(line').Text)) = {}]_vars

\* C27 witness: while the flag was set, an event with finished=true, agent
\* status "thinking" and text was handled: the terminal frame and the [DONE]
\* frame follow the marker frame, and the flag is still set
C27_Witness ==
  /\ mode = "stream" /\ lineNo = 2 /\ thinkFlag
  /\ sent[1] = <<dataPrefix, "{type:thinking}", NL>>
  /\ sent[2] = <<dataPrefix, "{finished:true,type:thinking,text:a}", NL>>
  /\ Len(frames) = 3
  /\ frames[2].finish = "stop" /\ frames[2].content = <<>>
  /\ frames[3].kind = "raw"

\* this step calls the handler: in stream mode every call either hands a
\* frame to the writer or ends processSSEStream with the handler's error
Delivers ==
  \/ Len(frames') > Len(frames)
  \/ pc = "read" /\ pc' = "done" /\ endedBy' = "handler"

\* C28: in stream mode the handler is called exactly when ReadBytes returns a
\* newline-terminated line with the data prefix and a decodable payload that
\* is neither empty nor [DONE], once, for that line (the frames written all
\* come from it, one JSON frame at most); a line without the prefix or with
\* an empty payload leaves the emitter as it is and processSSEStream goes on
\* to the next ReadBytes with no error.
C28_OneEventPerDataLine ==
  [][mode = "stream" =>
       /\ Delivers <=> (lineNo' = lineNo + 1 /\ IsJsonLine(line'))
       /\ Delivers =>
            /\ line' = sent[lineNo']
            /\ \A n \in 1..Len(NewFrames) : NewFrames[n].src = lineNo'
            /\ Cardinality({ n \in 1..Len(NewFrames) : NewFrames[n].kind = "chunk" }) <= 1
       /\ (lineNo' = lineNo + 1
             /\ (line'[1] # dataPrefix \/ PayloadOf(line') = <<>>)) =>
            /\ pc' = "read" /\ err' = err /\ endedBy' = endedBy
            /\ frames' = frames /\ thinkFlag' = thinkFlag]_vars

\* C28 witness: a line without the prefix and a line with an empty payload
\* were read, then a data line with a JSON object, which alone gave a frame,
\* and the parser is reading on
C28_Witness ==
  /\ mode = "stream" /\ pc = "read" /\ lineNo = 3 /\ err = "none"
  /\ sent[1] = <<JunkToken, NL>>
  /\ sent[2] = <<dataPrefix, NL>>
  /\ IsJsonLine(sent[3])
  /\ Len(frames) = 1 /\ frames[1].src = 3

\* C29: processSSEStream returns nil at the data: [DONE] line and at
\* end-of-input.  The sentinel line is the last line read: no line before it
\* is a sentinel, what the backend sent behind it stays unread and gives no
\* frame; a consumed sentinel line always means the sequence has ended.  Once
\* processSSEStream has returned, nothing is read or handled any more and
\* its result stands.
C29_SentinelAndEofEnd ==
  /\ [](/\ endedBy \in {"sentinel", "eof"} => (pc = "done" /\ err = "nil")
        /\ endedBy = "sentinel" =>
             /\ lineNo >= 1 /\ line = sent[lineNo] /\ IsDoneLine(line)
             /\ \A i \in 1..Len(frames) : frames[i].src < lineNo
        /\ endedBy = "eof" => net = <<>>
        /\ \A k \in 1..lineNo :
             IsDoneLine(sent[k]) => (k = lineNo /\ endedBy = "sentinel"))
  /\ [][pc = "done" =>
          /\ pc' = "done" /\ err' = err /\ endedBy' = endedBy
          /\ lineNo' = lineNo /\ line' = line /\ rbuf' = rbuf /\ net' = net
          /\ frames' = frames /\ thinkFlag' = thinkFlag
          /\ fullContent' = fullContent /\ completion' = completion]_vars

\* C29 witness: the sentinel was read after an event, with a line the backend
\* sent behind it left unread
C29_Witness ==
  /\ mode = "stream" /\ pc = "done" /\ endedBy = "sentinel" /\ err = "nil"
  /\ lineNo = 2 /\ Len(sent) = 3
  /\ IsJsonLine(sent[1]) /\ IsJsonLine(sent[3])
  /\ Len(frames) = 1

\* C31: once StreamMonicaSSEToClient has returned, by whichever return of
\* processSSEStream, the goroutine that flushes on the ticker ends; it ends
\* only then, and a call of CollectMonicaSSEToCompletion never has one.
C31_FlushTaskEnds ==
  /\ (mode = "stream" /\ pc = "done") ~> (ftask = "exited")
  /\ [](ftask = "exited" => pc = "done")
  /\ [](mode = "collect" => ftask = "off")
  /\ [][ftask = "exited" => ftask' = "exited"]_<< vars, fvars >>

\* C31 witness: the stream ended by a payload that does not decode, after a
\* flush of the goroutine, and the goroutine has ended
C31_Witness ==
  /\ mode = "stream" /\ pc = "done" /\ endedBy = "unmarshal"
  /\ ftask = "exited"
  /\ sink # <<>>

\* C32: while the goroutine is inside writer.Flush() (its write to w has
\* returned, b.n is not yet reset), the handler does not touch the writer:
\* no frame is written to it and neither the terminal-frame flush nor the
\* deferred flush at the return is made.
C32_NoInterleavedFlush ==
  [][(ftask = "reset" /\ ftask' = "reset") =>
       /\ frames' = frames
       /\ wbuf' = wbuf /\ sink' = sink /\ werr' = werr
       /\ pc' = pc]_<< vars, fvars >>

\* the requests that have read the state of randSource in Intn and have not
\* yet written it back
InIntn == { h \in 1..NumCallers : hpc[h] = "store" }

\* C33: no two requests are inside randSource.Intn at the same time (the
\* pools are entered by one request at a time through sync.Pool, and an
\* object or builder taken is held by one request only).
C33_NoSharedMutation ==
  /\ Cardinality(InIntn) <= 1
  /\ \A h1, h2 \in 1..NumCallers :
       h1 # h2 => /\ (held[h1] = 0 \/ held[h1] # held[h2])
                  /\ (sbheld[h1] = 0 \/ sbheld[h1] # sbheld[h2])

\* the requests that hold an event object, a builder
Holders == { h \in 1..NumCallers : held[h] # 0 }

SbHolders == { h \in 1..NumCallers : sbheld[h] # 0 }

\* no object is twice in the sequence s, and none of its objects is held
FreeOnce(s, holding) ==
  /\ \A i, j \in 1..Len(s) : i # j => s[i] # s[j]
  /\ \A i \in 1..Len(s), h \in 1..NumCallers : holding[h] # s[i]

\* C34: an event object or builder taken from its pool is held by one
\* request; every object made is either in its pool, once, or held (so each
\* acquisition is matched by one Put and none is lost); a request holds the
\* event object from Get to the Put after its handler, the stream's frame
\* builder during the write of the frame, the Collector's builder from its
\* start to its deferred Put, and nothing once it has returned, whichever
\* way it ended.  An object enters its pool only from the request that held
\* it, at the Put after its use.
C34_PooledObjectsOwnedOnce ==
  /\ [](/\ \A h1, h2 \in Holders : h1 # h2 => held[h1] # held[h2]
        /\ \A h1, h2 \in SbHolders : h1 # h2 => sbheld[h1] # sbheld[h2]
        /\ FreeOnce(pool, held) /\ FreeOnce(sbpool, sbheld)
        /\ made = Len(pool) + Cardinality(Holders)
        /\ sbmade = Len(sbpool) + Cardinality(SbHolders)
        /\ \A h \in 1..NumCallers :
             /\ held[h] # 0 <=> hpc[h] \in {"decode", "handle", "write", "put"}
             /\ sbheld[h] # 0 <=>
                  \/ hmode[h] = "stream" /\ hpc[h] = "write"
                  \/ hmode[h] = "collect" /\ hpc[h] \notin {"cget", "done"}
             /\ hpc[h] = "done" => (held[h] = 0 /\ sbheld[h] = 0))
  /\ [][/\ (pool' # pool /\ Len(pool') >= Len(pool)) =>
            (\E h \in 1..NumCallers :
               /\ hpc[h] = "put" /\ pool' = Append(pool, held[h]) /\ held'[h] = 0)
        /\ (sbpool' # sbpool /\ Len(sbpool') >= Len(sbpool)) =>
            (\E h \in 1..NumCallers :
               /\ hpc[h] \in {"write", "cput"}
               /\ sbpool' = Append(sbpool, sbheld[h]) /\ sbheld'[h] = 0)]_pvars

\* C34 witness: the first request ended by a decode error after an event and
\* has put back what it held; the second holds the one event object made so
\* far, while its handler runs
C34_Witness ==
  /\ hpc[1] = "done" /\ herr[1] = "unmarshal error" /\ hcount[1] = 2
  /\ hpc[2] = "handle" /\ made = 1 /\ held[2] = 1
  /\ hmode[2] = "collect" /\ sbheld[2] # 0

\* C37: an object in sseDataPool, and one New has not made yet, is the zero
\* SSEData; so the event a handler is given is the decoding of its own line
\* on a zeroed object: a field the line does not carry is empty or false,
\* whatever the object held for an earlier line of this or another request.
C37_EventFromOwnLine ==
  /\ [](/\ \A i \in 1..Len(pool) : objData[pool[i]] = ZeroSSEData
        /\ \A o \in (made + 1)..MaxObjs : objData[o] = ZeroSSEData
        /\ \A h \in 1..NumCallers :
             /\ hpc[h] = "decode" => objData[held[h]] = ZeroSSEData
             /\ hpc[h] = "handle" => objData[held[h]] = Decoded[hlast[h]])
  /\ [][\A h \in 1..NumCallers :
          (hpc[h] = "handle" /\ hpc'[h] # "handle") => hseen'[h] = Decoded[hlast[h]]]_pvars

\* C37 witness: the Collector of one request was given a "thinking" event,
\* and the handler of the other was then given a text event in the same
\* object, with no agent status
C37_Witness ==
  /\ hmode[1] = "collect" /\ hlast[1] = "{type:thinking}" /\ hpc[1] = "done"
  /\ hcount[1] = 2 /\ herr[1] = "nil"
  /\ made = 1 /\ held[2] = 1 /\ hpc[2] = "put"
  /\ hlast[2] = "{text:a}" /\ hseen[2] = Decoded["{text:a}"]

\* the content of the emitter's JSON frames, concatenated in order, without
\* the frames of "thinking_detail_stream" events and without the markers
RECURSIVE EmitterText(_)
EmitterText(n) ==
  IF n = 0 THEN <<>>
  ELSE IF frames[n].kind # "chunk" \/ RuleOf(FrameEvent(n)) = "detail"
    THEN EmitterText(n - 1)
  ELSE EmitterText(n - 1) \o
         SelectSeq(frames[n].content, LAMBDA t : t \notin {thinkOpen, thinkClose})

\* the events of the lines sent
SentEvents == { EventOf(sent[k]) : k \in JsonIdx(Len(sent)) }

\* a stream on whose text the two translations cannot differ: no finished
\* event without agent status carries text, and no event that is not
\* finished carries text with an agent status
SameTextStream ==
  \A e \in SentEvents :
    /\ (e.Finished /\ e.Type = "") => e.Text = <<>>
    /\ (~e.Finished /\ e.Type # "") => e.Text = <<>>

\* C35 as stated: for every stream that ended with the sentinel, the text of
\* the emitter's frames is the content of the Collector's response.
C35_EmitterEqualsCollector ==
  pc = "done" => EmitterText(Len(frames)) = completion[1].Content

\* C35: the same, for the streams in which no finished event without agent
\* status carries text and no unfinished event with an agent status carries
\* text.
C35_EmitterEqualsCollectorSameText ==
  (pc = "done" /\ SameTextStream) => EmitterText(Len(frames)) = completion[1].Content

\* C35 witness: a stream with a reasoning block, text after it and a finished
\* event that carries agent status and text has ended, and both gave the text
C35_Witness ==
  /\ pc = "done" /\ SameTextStream
  /\ Len(sent) = 4
  /\ IsJsonLine(sent[1]) /\ EventOf(sent[1]).Type = "thinking"
  /\ sent[2] = <<dataPrefix, "{text:a}", NL>>
  /\ sent[3] = <<dataPrefix, "{finished:true,type:thinking,text:a}", NL>>
  /\ completion[1].Content = <<"a">>
  /\ Len(frames) = 4

\* C36: when ReadBytes returns io.EOF, what it returns with it (the rest of
\* the body after the last newline) is not handled: processSSEStream returns
\* nil, no frame is written for it, the Collector's content does not get its
\* text, and it does not count as a line.
C36_UnterminatedLineDropped ==
  [][(pc = "read" /\ endedBy' = "eof") =>
       /\ pc' = "done" /\ err' = "nil"
       /\ lineNo' = lineNo
       /\ frames' = frames /\ thinkFlag' = thinkFlag
       /\ fullContent' = fullContent
       /\ mode = "collect" => completion' = Completion("nil", fullContent)]_vars

\* C36 witness: the Collector had read one text line when the body ended
\* after data: {text:b} without a newline; its response has the text of the
\* first line only
C36_Witness ==
  /\ mode = "collect" /\ pc = "done" /\ endedBy = "eof" /\ err = "nil"
  /\ lineNo = 1 /\ sent = << <<dataPrefix, "{text:a}", NL>> >>
  /\ line = <<dataPrefix, "{text:b}">>
  /\ completion = Completion("nil", <<"a">>)

\* C38: the range loop of a sweep deletes the entries whose lastSeen is more
\* than threshold before the timestamp the sweep took, and leaves the others
\* and every token bucket as they are; an entry whose lastSeen a lookup has
\* set to the sweep's timestamp or later keeps a lastSeen within the
\* threshold until the loop, and is still there after it.
C38_SweepRemovesExactlyInactive ==
  [][/\ (sweeper = "range" /\ sweeper' # "range") =>
          /\ clients' = { e \in clients : ~Inactive(e, sweepNow) }
          /\ tokens' = tokens
     /\ sweeper \in {"lock", "range"} =>
          \A e \in clients :
            e.lastSeen.ext >= sweepNow =>
              \E e2 \in clients' : e2.key = e.key /\ ~Inactive(e2, sweepNow)]_rlvars

\* C39: once StreamMonicaSSEToClient has returned an error, after the status
\* 200 and the headers were sent, nothing more is written to the response:
\* what the client has received stays as it is.
C39_NothingAfterAbort ==
  [][(mode = "stream" /\ pc = "done" /\ err \notin {"none", "nil"}) =>
       sink' = sink]_<< vars, avars >>

====
